---- MODULE Spec2Model ----
(***************************************************************************)
(* Bit-stream codec of nunavut_support.py: the Serializer, the             *)
(* Deserializer, the ZeroExtendingBuffer and the fork discipline.          *)
(*                                                                         *)
(* A numpy byte array is a sequence of naturals in 0..255; element i of    *)
(* the array (0-based, as in the source) is element i + 1 of the sequence. *)
(* A forked Serializer holds a numpy slice of its parent's array: a view   *)
(* [base, len] on the root memory.  An operation on a view reads the       *)
(* view's bytes out of the root memory, runs, and stores them back, which  *)
(* is what aliasing does for operations that run one at a time.            *)
(* A raised exception is the err field of the operation's outcome; the     *)
(* effects that precede the raise are kept, as in the source.              *)
(***************************************************************************)
EXTENDS Integers, Sequences, FiniteSets, TLC

\* ------------------------------------------------------------------ bounds

\* Size, in bytes, requested from Serializer.new for the root serializer.
SerSize == 2

\* Largest number of operations in one run of the serializer tree.
MaxSerOps == 4

\* ------------------------------------------------------- program constants

EXTRA_BUFFER_CAPACITY_BYTES == 1

\* ------------------------------------------------------------- bit helpers

Min(a, b) == IF a < b THEN a ELSE b

Max(a, b) == IF a > b THEN a ELSE b

\* Python's a | b on non-negative integers.
RECURSIVE IntOr(_, _)
IntOr(a, b) ==
    IF a = 0 THEN b
    ELSE IF b = 0 THEN a
    ELSE (IF a % 2 = 1 \/ b % 2 = 1 THEN 1 ELSE 0) + 2 * IntOr(a \div 2, b \div 2)

\* Python's a & b on non-negative integers.
RECURSIVE IntAnd(_, _)
IntAnd(a, b) ==
    IF a = 0 \/ b = 0 THEN 0
    ELSE (IF a % 2 = 1 /\ b % 2 = 1 THEN 1 ELSE 0) + 2 * IntAnd(a \div 2, b \div 2)

\* Python's a << n and a >> n on non-negative integers.
Shl(a, n) == IF a = 0 THEN 0 ELSE a * (2 ^ n)

Shr(a, n) == a \div (2 ^ n)

\* Bit j (least significant first) of bit position p of a byte sequence.
BitOfSeq(buf, p) ==
    IF p \div 8 < Len(buf) THEN (buf[(p \div 8) + 1] \div (2 ^ (p % 8))) % 2 ELSE 0

Zeros(n) == [i \in 1..n |-> 0]

\* numpy.packbits(x, bitorder="little"): x is a sequence of 0/1.
PackBits(x) ==
    [j \in 1..((Len(x) + 7) \div 8) |->
        LET Bit(i) == IF 8 * (j - 1) + i + 1 <= Len(x)
                      THEN x[8 * (j - 1) + i + 1] * (2 ^ i) ELSE 0
        IN Bit(0) + Bit(1) + Bit(2) + Bit(3) + Bit(4) + Bit(5) + Bit(6) + Bit(7)]

\* numpy.unpackbits(bs, bitorder="little")[:count]
UnpackBits(bs, count) ==
    [i \in 1..Min(count, 8 * Len(bs)) |-> BitOfSeq(bs, i - 1)]

\* ------------------------------------------------------ Serializer (write)

\* The numpy the program runs on: TRUE when the assignment of an out-of-range Python
\* integer to an element of a uint8 array wraps around (numpy before 2.0), FALSE when
\* it raises OverflowError (numpy 2.0 and later).  It never changes in a run.
VARIABLE numpy_wraps

\* The state an operation runs on: the bytes of self._buf, self._bit_offset and the
\* exception raised so far ("none" while the operation is still running normally);
\* top records the highest index of self._buf that a store of the operation has
\* addressed (-1 when it has stored nothing).
SerState(buf, off) == [buf |-> buf, off |-> off, err |-> "none", top |-> 0 - 1]

Touch(s, i) == [s EXCEPT !.top = Max(@, i)]

Raise(s, e) == IF s.err = "none" THEN [s EXCEPT !.err = e] ELSE s

\* Serializer._byte_offset
SerByteOffset(s) == s.off \div 8

\* self._bit_offset += n
SerAdvance(s, n) == IF s.err = "none" THEN [s EXCEPT !.off = @ + n] ELSE s

\* self._buf[i] = x for a numpy array: IndexError when i is out of bounds.
SetItem(s, i, x) ==
    IF s.err # "none" THEN s
    ELSE IF i >= Len(s.buf) THEN Raise(Touch(s, i), "IndexError")
    ELSE [Touch(s, i) EXCEPT !.buf[i + 1] = x]

\* self._buf[i] |= x
OrItem(s, i, x) ==
    IF s.err # "none" THEN s
    ELSE IF i >= Len(s.buf) THEN Raise(Touch(s, i), "IndexError")
    ELSE [Touch(s, i) EXCEPT !.buf[i + 1] = IntOr(@, x)]

\* self._buf[a : a + len(x)] = x for numpy arrays: the slice is clipped to the array;
\* a one-element x broadcasts into a clipped (empty) slice, any other length mismatch
\* raises ValueError.
SetSlice(s, a, x) ==
    IF s.err # "none" THEN s
    ELSE LET L  == Len(s.buf)
             lo == Min(a, L)
             hi == Min(a + Len(x), L)
             t  == IF Len(x) > 0 THEN Touch(s, a + Len(x) - 1) ELSE s
         IN IF hi - lo = Len(x)
            THEN [t EXCEPT !.buf = [i \in 1..L |->
                                     IF lo < i /\ i <= hi THEN x[i - lo] ELSE s.buf[i]]]
            ELSE IF Len(x) = 1 THEN t
            ELSE Raise(t, "ValueError")

\* assert cond
SerAssert(s, cond) == IF cond THEN s ELSE Raise(s, "AssertionError")

\* Mutant of Serializer._ensure_not_negative: nothing is checked.
EnsureNotNegative_Unchecked(s, x) == s

\* Serializer._ensure_not_negative
EnsureNotNegative(s, x) == IF x < 0 THEN Raise(s, "ValueError") ELSE s

\* Mutant of Serializer._unsigned_to_bytes: the value is not masked to bit_length.
UnsignedToBytes_Unmasked(value, bit_length) ==
    [i \in 1..((bit_length + 7) \div 8) |-> (value \div (2 ^ (8 * (i - 1)))) % 256]

\* Serializer._unsigned_to_bytes (its two asserts are checked by UnsignedToBytesOk).
UnsignedToBytes(value, bit_length) ==
    LET v == value % (2 ^ bit_length)
    IN [i \in 1..((bit_length + 7) \div 8) |-> (v \div (2 ^ (8 * (i - 1)))) % 256]

UnsignedToBytesOk(value, bit_length) == bit_length >= 1 /\ value >= 0

\* Mutant of Serializer.new: no extra byte is allocated.
SerNew_NoExtra(size) == SerState(Zeros(size), 0)

\* Serializer.new
SerNew(size) == SerState(Zeros(size + EXTRA_BUFFER_CAPACITY_BYTES), 0)

\* Mutant of Serializer.buffer: the bytes the cursor has entered without passing
\* are left out.
SerBuffer_WholeBytesOnly(s) == SubSeq(s.buf, 1, Min(s.off \div 8, Len(s.buf)))

\* Serializer.buffer
SerBuffer(s) == SubSeq(s.buf, 1, Min((s.off + 7) \div 8, Len(s.buf)))

\* Serializer.skip_bits
SerSkipBits(s, bit_length) == SerAdvance(s, bit_length)

\* Serializer.add_unaligned_bit
AddUnalignedBit(s, x) ==
    SerAdvance(OrItem(s, SerByteOffset(s), Shl(x, s.off % 8)), 1)

\* Mutant of Serializer.pad_to_alignment: the cursor is moved by the alignment less the
\* remainder, also when the remainder is zero.
SerPadToAlignment_Skips(s, bit_length) ==
    SerSkipBits(s, bit_length - (s.off % bit_length))

\* Serializer.pad_to_alignment
RECURSIVE SerPadToAlignment(_, _)
SerPadToAlignment(s, bit_length) ==
    IF s.err # "none" \/ s.off % bit_length = 0 THEN s
    ELSE SerPadToAlignment(AddUnalignedBit(s, 0), bit_length)

\* Mutant of Serializer.add_aligned_array_of_bits: the bits are packed with the
\* first one in the most significant bit of a byte (numpy.packbits by default).
AddAlignedArrayOfBits_BigBitOrder(s, x) ==
    LET s1     == SerAssert(s, s.off % 8 = 0)
        packed == [j \in 1..((Len(x) + 7) \div 8) |->
                     LET Bit(i) == IF 8 * (j - 1) + i + 1 <= Len(x)
                                   THEN x[8 * (j - 1) + i + 1] * (2 ^ (7 - i)) ELSE 0
                     IN Bit(0) + Bit(1) + Bit(2) + Bit(3) + Bit(4) + Bit(5) + Bit(6) + Bit(7)]
    IN SerAdvance(SetSlice(s1, SerByteOffset(s), packed), Len(x))

\* Serializer.add_aligned_array_of_bits
AddAlignedArrayOfBits(s, x) ==
    LET s1     == SerAssert(s, s.off % 8 = 0)
        packed == PackBits(x)
    IN SerAdvance(SetSlice(s1, SerByteOffset(s), packed), Len(x))

\* Mutant of Serializer.add_aligned_bytes: the cursor moves by len(x) bits.
AddAlignedBytes_AdvancesByLen(s, x) ==
    LET s1 == SerAssert(s, s.off % 8 = 0)
    IN SerAdvance(SetSlice(s1, SerByteOffset(s), x), Len(x))

\* Serializer.add_aligned_bytes
AddAlignedBytes(s, x) ==
    LET s1 == SerAssert(s, s.off % 8 = 0)
    IN SerAdvance(SetSlice(s1, SerByteOffset(s), x), Len(x) * 8)

\* self._buf[i] = x for a Python int x: a value that numpy.uint8 cannot hold is cast
\* with wraparound by the numpy releases that cast, and raises OverflowError in those
\* that do not.
SetItemInt(s, i, x) ==
    IF s.err # "none" THEN s
    ELSE IF i >= Len(s.buf) THEN Raise(Touch(s, i), "IndexError")
    ELSE IF 0 <= x /\ x <= 255 THEN SetItem(s, i, x)
    ELSE IF numpy_wraps THEN SetItem(s, i, x % 256)
    ELSE Raise(s, "OverflowError")

\* Serializer.add_aligned_u8
AddAlignedU8(s, x) ==
    LET s1 == SerAssert(s, s.off % 8 = 0)
        s2 == EnsureNotNegative(s1, x)
    IN SerAdvance(SetItemInt(s2, SerByteOffset(s), x), 8)

\* Serializer.add_aligned_u16
AddAlignedU16(s, x) ==
    LET s1 == EnsureNotNegative(s, x)
        s2 == AddAlignedU8(s1, IntAnd(x, 255))
    IN IF s1.err # "none" THEN s1
       ELSE IF s2.err # "none" THEN s2
       ELSE AddAlignedU8(s2, IntAnd(Shr(x, 8), 255))

\* A Python integer of any size, for the operations whose values go beyond the
\* integers of the checker: whether it is negative and, when it is not, its digits
\* in base 65536, least significant first.
Wide(neg, digits) == [neg |-> neg, d |-> digits]

WideOf(n) == IF n < 0 THEN Wide(TRUE, <<>>) ELSE Wide(FALSE, <<n % 65536, n \div 65536>>)

\* x & 0xFFFF and x >> (16 * k) of a Python integer that is not negative
WideLow16(x) == IF Len(x.d) >= 1 THEN x.d[1] ELSE 0

WideShr16(x, k) == [x EXCEPT !.d = SubSeq(x.d, k + 1, Len(x.d))]

\* Byte j (0-based) of the little-endian representation of a Python integer that is
\* not negative.
WideByte(x, j) ==
    LET digit == IF j \div 2 + 1 <= Len(x.d) THEN x.d[j \div 2 + 1] ELSE 0
    IN IF j % 2 = 0 THEN digit % 256 ELSE digit \div 256

\* Serializer.add_aligned_u16 on such an integer: _ensure_not_negative(x), and
\* x & 0xFF and (x >> 8) & 0xFF, which read the 16 low bits of x.
AddAlignedU16Wide(s, x) ==
    IF s.err # "none" THEN s
    ELSE IF x.neg THEN Raise(s, "ValueError")
    ELSE AddAlignedU16(s, WideLow16(x))

\* Serializer.add_aligned_u32
AddAlignedU32(s, x) ==
    AddAlignedU16Wide(AddAlignedU16Wide(s, x), WideShr16(x, 1))

\* Serializer.add_aligned_u64
AddAlignedU64(s, x) ==
    AddAlignedU32(AddAlignedU32(s, x), WideShr16(x, 2))

\* Serializer.add_aligned_i8, add_aligned_i16
AddAlignedI8(s, x) == AddAlignedU8(s, IF x < 0 THEN 256 + x ELSE x)

AddAlignedI16(s, x) == AddAlignedU16(s, IF x < 0 THEN 65536 + x ELSE x)

\* The digits of a Python integer without its leading zero digits.
RECURSIVE WideTrim(_)
WideTrim(d) ==
    IF d = <<>> \/ d[Len(d)] # 0 THEN d ELSE WideTrim(SubSeq(d, 1, Len(d) - 1))

\* 2 ** (16 * k) - m for 0 < m <= 2 ** (16 * k) with m of at most k digits: digit by
\* digit with a borrow b.
WideComplement(m, k) ==
    LET md(i) == IF i <= Len(m) THEN m[i] ELSE 0
        b[i \in 1..k] == IF i = 1 THEN 0 ELSE IF md(i - 1) + b[i - 1] > 0 THEN 1 ELSE 0
    IN [i \in 1..k |-> (65536 - md(i) - b[i]) % 65536]

\* (2 ** (16 * k) + x) if x < 0 else x, for a Python integer x given by its sign and
\* the digits of its magnitude; of a result that is still negative only the sign is
\* kept.
SignedToUnsignedWide(x, k) ==
    IF ~x.neg THEN x
    ELSE IF Len(WideTrim(x.d)) <= k THEN Wide(FALSE, WideComplement(WideTrim(x.d), k))
    ELSE IF WideTrim(x.d) = Zeros(k) \o <<1>> THEN Wide(FALSE, <<>>)
    ELSE Wide(TRUE, <<>>)

\* Mutant of Serializer.add_aligned_i32: the sign is dropped instead of 2 ** 32 added.
AddAlignedI32_Magnitude(s, x) == AddAlignedU32(s, Wide(FALSE, x.d))

\* Serializer.add_aligned_i32
AddAlignedI32(s, x) == AddAlignedU32(s, SignedToUnsignedWide(x, 2))

\* Serializer.add_aligned_i64
AddAlignedI64(s, x) == AddAlignedU64(s, SignedToUnsignedWide(x, 4))

\* Mutant of Serializer.add_aligned_unsigned: the slice stored is one byte longer
\* than the bytes of the value, as the unaligned writer stores the high fragment.
AddAlignedUnsigned_StoresNext(s, value, bit_length) ==
    LET s1 == SerAssert(s, s.off % 8 = 0)
        s2 == EnsureNotNegative(s1, value)
        s3 == SerAssert(s2, UnsignedToBytesOk(value, bit_length))
    IN IF s3.err # "none" THEN s3
       ELSE SerAdvance(SetSlice(s3, SerByteOffset(s),
                                UnsignedToBytes(value, bit_length) \o <<0>>),
                       bit_length)

\* Serializer.add_aligned_unsigned
AddAlignedUnsigned(s, value, bit_length) ==
    LET s1 == SerAssert(s, s.off % 8 = 0)
        s2 == EnsureNotNegative(s1, value)
        s3 == SerAssert(s2, UnsignedToBytesOk(value, bit_length))
    IN IF s3.err # "none" THEN s3
       ELSE SerAdvance(SetSlice(s3, SerByteOffset(s), UnsignedToBytes(value, bit_length)),
                       bit_length)

\* The conversion of a signed value done by add_aligned_signed and add_unaligned_signed.
SignedToUnsigned(value, bit_length) ==
    IF value < 0 THEN 2 ^ bit_length + value ELSE value

\* Serializer.add_aligned_signed
AddAlignedSigned(s, value, bit_length) ==
    IF bit_length < 2 THEN Raise(s, "AssertionError")
    ELSE AddAlignedUnsigned(s, SignedToUnsigned(value, bit_length), bit_length)

\* Mutant of the loop of Serializer.add_unaligned_bytes: the high fragment of the
\* byte is taken with the shift of the low one.
AddUnalignedByteStep_HighShiftedByLeft(s, b, left, right) ==
    LET s1 == OrItem(s, SerByteOffset(s), Shl(b, left) % 256)
        s2 == SerAdvance(s1, 8)
    IN SetItem(s2, SerByteOffset(s2), Shr(b, left))

\* Mutant of the loop of Serializer.add_unaligned_bytes: the byte is stored whole
\* where its high fragment goes.
AddUnalignedByteStep_HighUnshifted(s, b, left, right) ==
    LET s1 == OrItem(s, SerByteOffset(s), Shl(b, left) % 256)
        s2 == SerAdvance(s1, 8)
    IN SetItem(s2, SerByteOffset(s2), b)

\* Mutant of the loop of Serializer.add_unaligned_bytes: the low fragment is assigned
\* to the byte at the cursor, not combined with it.
AddUnalignedByteStep_LowAssigned(s, b, left, right) ==
    LET s1 == SetItem(s, SerByteOffset(s), Shl(b, left) % 256)
        s2 == SerAdvance(s1, 8)
    IN SetItem(s2, SerByteOffset(s2), Shr(b, right))

\* One pass of the loop of Serializer.add_unaligned_bytes, for the byte b.
AddUnalignedByteStep(s, b, left, right) ==
    LET s1 == OrItem(s, SerByteOffset(s), Shl(b, left) % 256)
        s2 == SerAdvance(s1, 8)
    IN SetItem(s2, SerByteOffset(s2), Shr(b, right))

\* Serializer.add_unaligned_bytes
RECURSIVE AddUnalignedBytesLoop(_, _, _, _, _)
AddUnalignedBytesLoop(s, value, i, left, right) ==
    IF s.err # "none" \/ i > Len(value) THEN s
    ELSE AddUnalignedBytesLoop(AddUnalignedByteStep(s, value[i], left, right),
                               value, i + 1, left, right)

AddUnalignedBytes(s, value) ==
    LET left  == s.off % 8
        right == 8 - left
    IN AddUnalignedBytesLoop(s, value, 1, left, right)

\* ------------------------------------------------ floats (_float_to_bytes)

\* A Python float: the finite value (-1)^neg * n * 2^t, or an infinity of that sign.
FloatValue(neg, n, t) == [neg |-> neg, n |-> n, t |-> t, inf |-> FALSE]

FloatInf(neg) == [neg |-> neg, n |-> 0, t |-> 0, inf |-> TRUE]

\* The struct format characters "e", "f" and "d": IEEE 754 binary16, binary32 and
\* binary64, with p significand bits (the hidden one included), ebits exponent bits
\* and the largest exponent emax.
FloatFormat(c) ==
    CASE c = "e" -> [p |-> 11, ebits |-> 5, emax |-> 15]
      [] c = "f" -> [p |-> 24, ebits |-> 8, emax |-> 127]
      [] c = "d" -> [p |-> 53, ebits |-> 11, emax |-> 1023]

\* int.bit_length()
RECURSIVE BitLen(_)
BitLen(n) == IF n = 0 THEN 0 ELSE 1 + BitLen(n \div 2)

\* Bit j of the natural number n < 2^31.
NBit(n, j) == IF j < 0 \/ j > 30 THEN 0 ELSE (n \div (2 ^ j)) % 2

\* n / 2^k for k >= 1, rounded to the nearest integer, a tie to the even one.
RoundHalfEven(n, k) ==
    IF k > 30 THEN 0
    ELSE IF n % (2 ^ k) > 2 ^ (k - 1)
            \/ (n % (2 ^ k) = 2 ^ (k - 1) /\ (n \div (2 ^ k)) % 2 = 1)
         THEN (n \div (2 ^ k)) + 1
         ELSE n \div (2 ^ k)

\* The little-endian bytes of the encoding with the sign neg, the exponent field ef
\* and the fraction whose bit j is bit j + sh of fr.
FloatEncode(f, neg, ef, fr, sh) ==
    PackBits([j \in 1..(f.p + f.ebits) |->
                 IF j <= f.p - 1 THEN NBit(fr, j - 1 + sh)
                 ELSE IF j < f.p + f.ebits THEN NBit(ef, j - f.p)
                 ELSE IF neg THEN 1 ELSE 0])

\* The packing of n * 2^t whose significand fits the format: no bit is dropped.
\* e is the exponent of the leading bit.
StructPackExact(f, x, e) ==
    IF e > f.emax THEN [err |-> "OverflowError", bytes |-> <<>>]
    ELSE IF e >= 1 - f.emax
         THEN [err |-> "none",
               bytes |-> FloatEncode(f, x.neg, e + f.emax, x.n, BitLen(x.n) - f.p)]
         ELSE [err |-> "none",
               bytes |-> FloatEncode(f, x.neg, 0, x.n, (2 - f.emax - f.p) - x.t)]

\* The packing of a significand m that was rounded to the unit 2^q: a carry out of
\* the p bits moves to the next exponent.
StructPackRounded(f, neg, m, q) ==
    IF m = 2 ^ f.p THEN
        IF q + f.p > f.emax THEN [err |-> "OverflowError", bytes |-> <<>>]
        ELSE [err |-> "none", bytes |-> FloatEncode(f, neg, q + f.p + f.emax, 0, 0)]
    ELSE IF m >= 2 ^ (f.p - 1) THEN
        IF q + f.p - 1 > f.emax THEN [err |-> "OverflowError", bytes |-> <<>>]
        ELSE [err |-> "none",
              bytes |-> FloatEncode(f, neg, q + f.p - 1 + f.emax, m - 2 ^ (f.p - 1), 0)]
    ELSE [err |-> "none", bytes |-> FloatEncode(f, neg, 0, m, 0)]

\* The unit of the last place of the format at the value x: 2 to this power.
FloatQuantum(f, x) == Max(BitLen(x.n) - 1 + x.t, 1 - f.emax) - (f.p - 1)

\* struct.pack("<" + format_char, x) for a float x: the value rounded to the format,
\* to the nearest with a tie to even, and OverflowError when the rounded value is
\* beyond the largest finite one.
StructPack(c, x) ==
    IF x.inf
    THEN [err |-> "none",
          bytes |-> FloatEncode(FloatFormat(c), x.neg, 2 ^ FloatFormat(c).ebits - 1, 0, 0)]
    ELSE IF x.n = 0
    THEN [err |-> "none", bytes |-> FloatEncode(FloatFormat(c), x.neg, 0, 0, 0)]
    ELSE IF FloatQuantum(FloatFormat(c), x) <= x.t
    THEN StructPackExact(FloatFormat(c), x, BitLen(x.n) - 1 + x.t)
    ELSE StructPackRounded(FloatFormat(c), x.neg,
                           RoundHalfEven(x.n, FloatQuantum(FloatFormat(c), x) - x.t),
                           FloatQuantum(FloatFormat(c), x))

\* Mutant of Serializer._float_to_bytes: the infinity written is the positive one.
FloatToBytes_PositiveInf(format_char, x) ==
    IF StructPack(format_char, x).err = "OverflowError"
    THEN StructPack(format_char, FloatInf(FALSE)).bytes
    ELSE StructPack(format_char, x).bytes

\* Serializer._float_to_bytes
FloatToBytes(format_char, x) ==
    IF StructPack(format_char, x).err = "OverflowError"
    THEN StructPack(format_char, FloatInf(x.neg)).bytes
    ELSE StructPack(format_char, x).bytes

\* Serializer.add_aligned_f16, add_aligned_f32, add_aligned_f64
AddAlignedF16(s, x) == AddAlignedBytes(s, FloatToBytes("e", x))

AddAlignedF32(s, x) == AddAlignedBytes(s, FloatToBytes("f", x))

AddAlignedF64(s, x) == AddAlignedBytes(s, FloatToBytes("d", x))

\* Serializer.add_unaligned_f16, add_unaligned_f32, add_unaligned_f64
AddUnalignedF16(s, x) == AddUnalignedBytes(s, FloatToBytes("e", x))

AddUnalignedF32(s, x) == AddUnalignedBytes(s, FloatToBytes("f", x))

AddUnalignedF64(s, x) == AddUnalignedBytes(s, FloatToBytes("d", x))

\* Mutant of the backtracking of the unaligned operations: none is done.
Backtrack_None(num_bytes, bit_length) == 0

\* backtrack = len(bs) * 8 - bit_length
Backtrack(num_bytes, bit_length) == num_bytes * 8 - bit_length

\* Mutant of Serializer.add_unaligned_array_of_bits: the cursor is left after the
\* last whole byte written, without the backtracking.
AddUnalignedArrayOfBits_NoBacktrack(s, x) == AddUnalignedBytes(s, PackBits(x))

\* Serializer.add_unaligned_array_of_bits
AddUnalignedArrayOfBits(s, x) ==
    LET packed == PackBits(x)
    IN SerAdvance(AddUnalignedBytes(s, packed), 0 - Backtrack(Len(packed), Len(x)))

\* Serializer.add_unaligned_unsigned
AddUnalignedUnsigned(s, value, bit_length) ==
    LET s1 == EnsureNotNegative(s, value)
        s2 == SerAssert(s1, UnsignedToBytesOk(value, bit_length))
    IN IF s2.err # "none" THEN s2
       ELSE LET bs == UnsignedToBytes(value, bit_length)
            IN SerAdvance(AddUnalignedBytes(s2, bs), 0 - Backtrack(Len(bs), bit_length))

\* Serializer.add_unaligned_signed
AddUnalignedSigned(s, value, bit_length) ==
    IF bit_length < 2 THEN Raise(s, "AssertionError")
    ELSE AddUnalignedUnsigned(s, SignedToUnsigned(value, bit_length), bit_length)

\* Mutant of Serializer.fork_bytes: the child gets no extra byte.
SerForkedBufferSize_NoExtra(size) == size

\* Serializer.fork_bytes: the outcome is the error raised, or the child's window
\* (offset of its first byte in the parent's array, and its length).
SerForkedBufferSize(size) == size + EXTRA_BUFFER_CAPACITY_BYTES

SerForkAligned(s) == s.off % 8 = 0

\* Mutant of Serializer.fork_bytes: the child's buffer is cut from the start of the
\* parent's, not from its cursor.
SerForkBytes_FromStart(s, size) ==
    LET start     == Min(SerByteOffset(s), Len(s.buf))
        available == Len(s.buf) - start
        want      == SerForkedBufferSize(size)
    IN IF ~SerForkAligned(s) THEN [err |-> "ValueError", start |-> 0, len |-> 0]
       ELSE IF available < want THEN [err |-> "ValueError", start |-> 0, len |-> 0]
       ELSE [err |-> "none", start |-> 0, len |-> want]

\* Mutant of Serializer.fork_bytes: the child's buffer is all of the parent's from its
\* cursor on, not cut to the size asked for.
SerForkBytes_NotCut(s, size) ==
    LET start     == Min(SerByteOffset(s), Len(s.buf))
        available == Len(s.buf) - start
        want      == SerForkedBufferSize(size)
    IN IF ~SerForkAligned(s) THEN [err |-> "ValueError", start |-> 0, len |-> 0]
       ELSE IF available < want THEN [err |-> "ValueError", start |-> 0, len |-> 0]
       ELSE [err |-> "none", start |-> start, len |-> available]

SerForkBytes(s, size) ==
    LET start     == Min(SerByteOffset(s), Len(s.buf))
        available == Len(s.buf) - start
        want      == SerForkedBufferSize(size)
    IN IF ~SerForkAligned(s) THEN [err |-> "ValueError", start |-> 0, len |-> 0]
       ELSE IF available < want THEN [err |-> "ValueError", start |-> 0, len |-> 0]
       ELSE [err |-> "none", start |-> start, len |-> want]

\* ---------------------------------------------- ZeroExtendingBuffer (read)

\* ZeroExtendingBuffer.__init__: one fragment is used as it is, several are joined.
RECURSIVE JoinFragments(_)
JoinFragments(fragments) ==
    IF Len(fragments) = 0 THEN <<>>
    ELSE Head(fragments) \o JoinFragments(Tail(fragments))

ZebNew(fragments) ==
    IF Len(fragments) = 1 THEN fragments[1] ELSE JoinFragments(fragments)

\* ZeroExtendingBuffer.bit_length
ZebBitLength(buf) == Len(buf) * 8

\* Mutant of get_byte: it lacks the zero extension (an out-of-range index raises).
GetByte_NoZeroExtension(buf, index) ==
    IF index < 0 THEN [err |-> "ValueError", val |-> 0]
    ELSE IF index >= Len(buf) THEN [err |-> "IndexError", val |-> 0]
    ELSE [err |-> "none", val |-> buf[index + 1]]

\* ZeroExtendingBuffer.get_byte
GetByte(buf, index) ==
    IF index < 0 THEN [err |-> "ValueError", val |-> 0]
    ELSE IF index >= Len(buf) THEN [err |-> "none", val |-> 0]
    ELSE [err |-> "none", val |-> buf[index + 1]]

\* Mutant of get_unsigned_slice: it pads with the last byte in range, not with zero.
GetUnsignedSlice_EdgePadded(buf, left, right) ==
    IF ~(0 <= left /\ left <= right) THEN [err |-> "ValueError", val |-> <<>>]
    ELSE LET count == right - left
             out   == SubSeq(buf, Min(left, Len(buf)) + 1, Min(right, Len(buf)))
             edge  == IF Len(out) > 0 THEN out[Len(out)] ELSE 0
         IN [err |-> "none",
             val |-> IF Len(out) < count
                     THEN out \o [i \in 1..(count - Len(out)) |-> edge] ELSE out]

\* ZeroExtendingBuffer.get_unsigned_slice
GetUnsignedSlice(buf, left, right) ==
    IF ~(0 <= left /\ left <= right) THEN [err |-> "ValueError", val |-> <<>>]
    ELSE LET count == right - left
             out   == SubSeq(buf, Min(left, Len(buf)) + 1, Min(right, Len(buf)))
         IN [err |-> "none",
             val |-> IF Len(out) < count THEN out \o Zeros(count - Len(out)) ELSE out]

\* Mutant of ZeroExtendingBuffer.fork_bytes: the fragment runs to the end of the
\* parent's buffer.
ZebForkBytes_ToTheEnd(buf, offset_bytes, length_bytes) ==
    IF offset_bytes + length_bytes > Len(buf) THEN [err |-> "ValueError", val |-> <<>>]
    ELSE [err |-> "none", val |-> SubSeq(buf, offset_bytes + 1, Len(buf))]

\* ZeroExtendingBuffer.fork_bytes: the error raised, or the fragment handed to the
\* forked deserializer.
ZebForkBytes(buf, offset_bytes, length_bytes) ==
    IF offset_bytes + length_bytes > Len(buf) THEN [err |-> "ValueError", val |-> <<>>]
    ELSE [err |-> "none", val |-> SubSeq(buf, offset_bytes + 1, offset_bytes + length_bytes)]

\* ------------------------------------------------------ Deserializer (read)

\* The state an operation runs on: the bytes of self._buf, self._bit_offset, the
\* exception raised so far and the value returned.  A returned value is the sequence
\* val, of the kind "int", "bool" (0 or 1), "bytes" or "bits" (a sequence of 0 and 1).
DesState(buf, off) ==
    [buf |-> buf, off |-> off, err |-> "none", kind |-> "none", val |-> <<>>]

\* Deserializer.__init__
DesNew(fragments) == DesState(ZebNew(fragments), 0)

DesRaise(d, e) == IF d.err = "none" THEN [d EXCEPT !.err = e] ELSE d

DesAssert(d, cond) == IF cond THEN d ELSE DesRaise(d, "AssertionError")

DesReturn(d, kind, val) ==
    IF d.err = "none" THEN [d EXCEPT !.kind = kind, !.val = val] ELSE d

\* self._bit_offset += n
DesAdvance(d, n) == IF d.err = "none" THEN [d EXCEPT !.off = @ + n] ELSE d

\* _ensure_cardinal
EnsureCardinal(d, i) == IF i < 0 THEN DesRaise(d, "ValueError") ELSE d

\* Deserializer._byte_offset
DesByteOffset(d) == d.off \div 8

\* Deserializer.consumed_bit_length, remaining_bit_length
ConsumedBitLength(d) == d.off

RemainingBitLength(d) == ZebBitLength(d.buf) - d.off

\* Deserializer.skip_bits
DesSkipBits(d, bit_length) == DesAdvance(EnsureCardinal(d, bit_length), bit_length)

\* Deserializer.pad_to_alignment
RECURSIVE DesPadToAlignment(_, _)
DesPadToAlignment(d, bit_length) ==
    IF d.off % bit_length = 0 THEN d
    ELSE DesPadToAlignment(DesAdvance(d, 1), bit_length)

\* Deserializer._unsigned_from_bytes (bit_length >= 1, asserted by the callers below)
RECURSIVE LowBytes(_, _)
LowBytes(x, n) ==
    IF n = 0 THEN 0 ELSE IntOr(LowBytes(x, n - 1), Shl(x[n], (n - 1) * 8))

\* Mutant of _unsigned_from_bytes: the mask of the last byte lacks the case of a
\* bit length that is a multiple of eight.
UnsignedFromBytes_MaskOfWholeByte(x, bit_length) ==
    LET num_bytes       == (bit_length + 7) \div 8
        last_byte_index == num_bytes - 1
        msb_mask        == 2 ^ (bit_length % 8) - 1
    IN IntOr(LowBytes(x, last_byte_index),
             Shl(IntAnd(x[last_byte_index + 1], msb_mask), last_byte_index * 8))

UnsignedFromBytes(x, bit_length) ==
    LET num_bytes       == (bit_length + 7) \div 8
        last_byte_index == num_bytes - 1
        msb_mask        == IF bit_length % 8 # 0 THEN 2 ^ (bit_length % 8) - 1 ELSE 255
    IN IntOr(LowBytes(x, last_byte_index),
             Shl(IntAnd(x[last_byte_index + 1], msb_mask), last_byte_index * 8))

\* x >= 2 ** n, for x >= 0
RECURSIVE GePow2(_, _)
GePow2(x, n) == IF n = 0 THEN x >= 1 ELSE GePow2(x \div 2, n - 1)

\* (u - 2 ** bit_length) if u >= 2 ** (bit_length - 1) else u
UnsignedToSigned(u, bit_length) ==
    IF GePow2(u, bit_length - 1) THEN u - 2 ^ bit_length ELSE u

\* Deserializer.fetch_aligned_array_of_bits
FetchAlignedArrayOfBits(d, count) ==
    LET d1 == DesAssert(EnsureCardinal(d, count), d.off % 8 = 0)
        bo == DesByteOffset(d)
        bs == GetUnsignedSlice(d.buf, bo, bo + (count + 7) \div 8)
    IN IF d1.err # "none" THEN d1
       ELSE IF bs.err # "none" THEN DesRaise(d1, bs.err)
       ELSE DesReturn(DesAdvance(d1, count), "bits", UnpackBits(bs.val, count))

\* Deserializer.fetch_aligned_bytes
FetchAlignedBytes(d, count) ==
    LET d1  == DesAssert(EnsureCardinal(d, count), d.off % 8 = 0)
        bo  == DesByteOffset(d)
        out == GetUnsignedSlice(d.buf, bo, bo + count)
    IN IF d1.err # "none" THEN d1
       ELSE IF out.err # "none" THEN DesRaise(d1, out.err)
       ELSE DesReturn(DesAdvance(d1, count * 8), "bytes", out.val)

\* Deserializer.fetch_aligned_u8
FetchAlignedU8(d) ==
    LET d1  == DesAssert(d, d.off % 8 = 0)
        out == GetByte(d.buf, DesByteOffset(d))
    IN IF d1.err # "none" THEN d1
       ELSE IF out.err # "none" THEN DesRaise(d1, out.err)
       ELSE DesReturn(DesAdvance(d1, 8), "int", <<out.val>>)

\* out = first(); out |= second() << shift, the shape of fetch_aligned_u16/u32/u64
FetchPair(lo, hi, shift) ==
    IF lo.err # "none" THEN lo
    ELSE IF hi.err # "none" THEN hi
    ELSE DesReturn(hi, "int", <<IntOr(lo.val[1], Shl(hi.val[1], shift))>>)

\* Deserializer.fetch_aligned_u16, fetch_aligned_u32, fetch_aligned_u64
FetchAlignedU16(d) ==
    LET lo == FetchAlignedU8(d) IN FetchPair(lo, FetchAlignedU8(lo), 8)

FetchAlignedU32(d) ==
    LET lo == FetchAlignedU16(d) IN FetchPair(lo, FetchAlignedU16(lo), 16)

FetchAlignedU64(d) ==
    LET lo == FetchAlignedU32(d) IN FetchPair(lo, FetchAlignedU32(lo), 32)

\* x = fetch(); return (x - 2 ** width) if x >= 2 ** (width - 1) else x
FetchSignedOf(u, width) ==
    IF u.err # "none" THEN u
    ELSE DesReturn(u, "int", <<UnsignedToSigned(u.val[1], width)>>)

\* Deserializer.fetch_aligned_i8, i16, i32, i64
FetchAlignedI8(d) == FetchSignedOf(FetchAlignedU8(d), 8)

FetchAlignedI16(d) == FetchSignedOf(FetchAlignedU16(d), 16)

FetchAlignedI32(d) == FetchSignedOf(FetchAlignedU32(d), 32)

FetchAlignedI64(d) == FetchSignedOf(FetchAlignedU64(d), 64)

\* fetch_aligned_u32, fetch_aligned_u64 on data whose value goes beyond the integers of
\* the checker: out = first(); out |= second() << shift, returned as the base-65536
\* digits of out (kind "wide").
FetchWidePair(lo, hi) ==
    IF lo.err # "none" THEN lo
    ELSE IF hi.err # "none" THEN hi
    ELSE DesReturn(hi, "wide", lo.val \o hi.val)

FetchAlignedU32Wide(d) ==
    \* the set binder names the low half once
    CHOOSE r \in {FetchWidePair(lo, FetchAlignedU16(lo)) : lo \in {FetchAlignedU16(d)}} : TRUE

FetchAlignedU64Wide(d) ==
    CHOOSE r \in {FetchWidePair(lo, FetchAlignedU32Wide(lo)) :
                    lo \in {FetchAlignedU32Wide(d)}} : TRUE

\* (x - 2 ** (16 * k)) if x >= 2 ** (16 * k - 1) else x, on the digits of x: a negative
\* result is returned as the digits of its magnitude (kind "negwide").
FetchSignedOfWide(u, k) ==
    IF u.err # "none" THEN u
    ELSE IF u.val[k] >= 32768 THEN DesReturn(u, "negwide", WideComplement(u.val, k))
    ELSE u

\* fetch_aligned_i32, fetch_aligned_i64 on such data
FetchAlignedI32Wide(d) == FetchSignedOfWide(FetchAlignedU32Wide(d), 2)

FetchAlignedI64Wide(d) == FetchSignedOfWide(FetchAlignedU64Wide(d), 4)

\* Deserializer.fetch_aligned_unsigned
FetchAlignedUnsigned(d, bit_length) ==
    LET d1 == DesAssert(EnsureCardinal(d, bit_length), d.off % 8 = 0)
        bo == DesByteOffset(d)
        bs == GetUnsignedSlice(d.buf, bo, bo + (bit_length + 7) \div 8)
        d2 == DesAdvance(d1, bit_length)
    IN IF d1.err # "none" THEN d1
       ELSE IF bs.err # "none" THEN DesRaise(d1, bs.err)
       ELSE IF bit_length < 1 THEN DesRaise(d2, "AssertionError")
       ELSE DesReturn(d2, "int", <<UnsignedFromBytes(bs.val, bit_length)>>)

\* Deserializer.fetch_aligned_signed
FetchAlignedSigned(d, bit_length) ==
    IF bit_length < 2 THEN DesRaise(d, "AssertionError")
    ELSE FetchSignedOf(FetchAlignedUnsigned(d, bit_length), bit_length)

\* Mutant of the loop of Deserializer.fetch_unaligned_bytes: the byte produced lacks
\* the bits of the next byte of the source.
FetchUnalignedByteAt_LowOnly(buf, byte_offset, left, right) ==
    Shr(GetByte(buf, byte_offset).val, right)

\* One pass of the loop of Deserializer.fetch_unaligned_bytes: the byte produced.
FetchUnalignedByteAt(buf, byte_offset, left, right) ==
    IntOr(Shr(GetByte(buf, byte_offset).val, right),
          Shl(GetByte(buf, byte_offset + 1).val, left) % 256)

\* Deserializer.fetch_unaligned_bytes
FetchUnalignedBytes(d, count) ==
    IF count > 0
    THEN IF d.off % 8 # 0
         THEN LET right == d.off % 8
                  left  == 8 - right
                  out   == [i \in 1..count |->
                              FetchUnalignedByteAt(d.buf, (d.off + 8 * (i - 1)) \div 8,
                                                   left, right)]
              IN DesReturn(DesAdvance(d, 8 * count), "bytes", out)
         ELSE FetchAlignedBytes(d, count)
    ELSE DesReturn(d, "bytes", <<>>)

\* Deserializer.fetch_unaligned_array_of_bits
FetchUnalignedArrayOfBits(d, count) ==
    LET d1         == EnsureCardinal(d, count)
        byte_count == (count + 7) \div 8
        bs         == FetchUnalignedBytes(d1, byte_count)
    IN IF d1.err # "none" THEN d1
       ELSE IF bs.err # "none" THEN bs
       ELSE DesReturn(DesAdvance(bs, 0 - Backtrack(byte_count, count)),
                      "bits", UnpackBits(bs.val, count))

\* Mutant of Deserializer.fetch_unaligned_unsigned: the cursor is left after the last
\* whole byte read, without the backtracking.
FetchUnalignedUnsigned_NoBacktrack(d, bit_length) ==
    LET d1          == EnsureCardinal(d, bit_length)
        byte_length == (bit_length + 7) \div 8
        bs          == FetchUnalignedBytes(d1, byte_length)
    IN IF d1.err # "none" THEN d1
       ELSE IF bs.err # "none" THEN bs
       ELSE IF bit_length < 1 THEN DesRaise(bs, "AssertionError")
       ELSE DesReturn(bs, "int", <<UnsignedFromBytes(bs.val, bit_length)>>)

\* Deserializer.fetch_unaligned_unsigned
FetchUnalignedUnsigned(d, bit_length) ==
    LET d1          == EnsureCardinal(d, bit_length)
        byte_length == (bit_length + 7) \div 8
        bs          == FetchUnalignedBytes(d1, byte_length)
        d2          == DesAdvance(bs, 0 - Backtrack(byte_length, bit_length))
    IN IF d1.err # "none" THEN d1
       ELSE IF bs.err # "none" THEN bs
       ELSE IF bit_length < 1 THEN DesRaise(d2, "AssertionError")
       ELSE DesReturn(d2, "int", <<UnsignedFromBytes(bs.val, bit_length)>>)

\* Deserializer.fetch_unaligned_signed
FetchUnalignedSigned(d, bit_length) ==
    IF bit_length < 2 THEN DesRaise(d, "AssertionError")
    ELSE FetchSignedOf(FetchUnalignedUnsigned(d, bit_length), bit_length)

\* Deserializer.fetch_unaligned_bit
FetchUnalignedBit(d) ==
    LET mask == 2 ^ (d.off % 8)
        b    == GetByte(d.buf, DesByteOffset(d))
    IN IF b.err # "none" THEN DesRaise(d, b.err)
       ELSE DesReturn(DesAdvance(d, 1), "bool",
                      <<IF IntAnd(b.val, mask) = mask THEN 1 ELSE 0>>)

\* Mutant of Deserializer.fork_bytes: the check of the alignment is missing.
DesForkAligned_Unchecked(d) == TRUE

\* Deserializer.fork_bytes: the error raised, or the bytes the child is built over.
\* (Its assert on remaining_bit_length % 8 follows from the alignment checked first.)
DesForkAligned(d) == d.off % 8 = 0

DesRemainingByteLength(d) == RemainingBitLength(d) \div 8

DesForkBytes(d, size) ==
    IF ~DesForkAligned(d) THEN [err |-> "ValueError", val |-> <<>>]
    ELSE IF DesRemainingByteLength(d) < size THEN [err |-> "ValueError", val |-> <<>>]
    ELSE ZebForkBytes(d.buf, DesByteOffset(d), size)

\* ------------------------------------------------------------ the machine

VARIABLES
    pc,     \* the harness in control, and its phase
    steps,  \* operations issued so far, where a run is bounded by their number
    mem,    \* the numpy array allocated by Serializer.new for the root serializer M
    ser,    \* the serializers M, F (forked from M) and FF (forked from F)
    ref,    \* the reference serializer R, which has an array of its own
    des,    \* the deserializers M, F (forked from M) and FF (forked from F)
    twin,   \* a deserializer over M's source followed by zero bytes
    rt,     \* the case of the round trip
    raised, \* whether an operation on a serializer has raised so far
    last,   \* the latest operation: its receiver, arguments and outcome
    call    \* the latest call of serialize or deserialize: its inputs and outcome

vars == <<pc, steps, mem, ser, ref, des, twin, rt, raised, last, numpy_wraps, call>>

Handles == {"M", "F", "FF"}

NoLast ==
    [h |-> "none", c |-> "none", name |-> "none", n |-> 0, w |-> 0, x |-> <<>>, pre |-> 0,
     err |-> "none", kind |-> "none", val |-> <<>>, top |-> 0 - 1]

\* No call of serialize or deserialize: the facade called, the extent of the object
\* or the fragments given, the routine of the type (the operations it issues and how
\* it ends), the cursor and the error the routine ended with, and what the facade
\* returned or raised.
NoCall ==
    [facade |-> "none", extent |-> 0, fragments |-> <<>>, ops |-> <<>>, end |-> "return",
     cursor |-> 0, routine_err |-> "none", routine_val |-> <<>>, err |-> "none",
     out |-> <<>>]

\* A serializer: the window [base, base + len) of the root array that is its _buf,
\* its _bit_offset, and the bits its operations were asked to write or skip so far.
NoSer == [live |-> FALSE, base |-> 0, len |-> 0, off |-> 0, used |-> 0]

\* A deserializer: the bytes of its _buf, its _bit_offset, and the byte offset of
\* its _buf in the source of the root deserializer.
NoDes == [live |-> FALSE, base |-> 0, buf |-> <<>>, off |-> 0]

NoRt == [signed |-> FALSE, aligned |-> FALSE, w |-> 0, v |-> 0, k |-> 0]

\* ------------------------------------- operations issued on a Deserializer

\* An operation is its name and its argument n (a count, a bit length or an
\* alignment; 0 where the operation takes none).
DesOp(name, n) == [name |-> name, n |-> n]

DesExec(d, op) ==
    CASE op.name = "skip_bits"                     -> DesSkipBits(d, op.n)
      [] op.name = "pad_to_alignment"              -> DesPadToAlignment(d, op.n)
      [] op.name = "fetch_aligned_u8"              -> FetchAlignedU8(d)
      [] op.name = "fetch_aligned_u16"             -> FetchAlignedU16(d)
      [] op.name = "fetch_aligned_u32"             -> FetchAlignedU32(d)
      [] op.name = "fetch_aligned_u64"             -> FetchAlignedU64(d)
      [] op.name = "fetch_aligned_i8"              -> FetchAlignedI8(d)
      [] op.name = "fetch_aligned_i16"             -> FetchAlignedI16(d)
      [] op.name = "fetch_aligned_i32"             -> FetchAlignedI32(d)
      [] op.name = "fetch_aligned_i64"             -> FetchAlignedI64(d)
      [] op.name = "fetch_aligned_unsigned"        -> FetchAlignedUnsigned(d, op.n)
      [] op.name = "fetch_aligned_signed"          -> FetchAlignedSigned(d, op.n)
      [] op.name = "fetch_aligned_bytes"           -> FetchAlignedBytes(d, op.n)
      [] op.name = "fetch_aligned_array_of_bits"   -> FetchAlignedArrayOfBits(d, op.n)
      [] op.name = "fetch_unaligned_unsigned"      -> FetchUnalignedUnsigned(d, op.n)
      [] op.name = "fetch_unaligned_signed"        -> FetchUnalignedSigned(d, op.n)
      [] op.name = "fetch_unaligned_bytes"         -> FetchUnalignedBytes(d, op.n)
      [] op.name = "fetch_unaligned_array_of_bits" -> FetchUnalignedArrayOfBits(d, op.n)
      [] op.name = "fetch_unaligned_bit"           -> FetchUnalignedBit(d)

\* The bits an operation is asked to consume.
DesOpBits(op) ==
    CASE op.name \in {"fetch_aligned_u8", "fetch_aligned_i8"}   -> 8
      [] op.name \in {"fetch_aligned_u16", "fetch_aligned_i16"} -> 16
      [] op.name \in {"fetch_aligned_u32", "fetch_aligned_i32"} -> 32
      [] op.name \in {"fetch_aligned_u64", "fetch_aligned_i64"} -> 64
      [] op.name \in {"fetch_aligned_bytes", "fetch_unaligned_bytes"} -> 8 * op.n
      [] op.name = "fetch_unaligned_bit" -> 1
      [] OTHER -> op.n

\* The kind of value an operation returns.
DesOpKind(op) ==
    CASE op.name \in {"skip_bits", "pad_to_alignment"} -> "none"
      [] op.name \in {"fetch_aligned_bytes", "fetch_unaligned_bytes"} -> "bytes"
      [] op.name \in {"fetch_aligned_array_of_bits", "fetch_unaligned_array_of_bits"} -> "bits"
      [] op.name = "fetch_unaligned_bit" -> "bool"
      [] OTHER -> "int"

AlignedDesNames ==
    {"fetch_aligned_u8", "fetch_aligned_u16", "fetch_aligned_u32", "fetch_aligned_u64",
     "fetch_aligned_i8", "fetch_aligned_i16", "fetch_aligned_i32", "fetch_aligned_i64",
     "fetch_aligned_unsigned", "fetch_aligned_signed", "fetch_aligned_bytes",
     "fetch_aligned_array_of_bits"}

FetchNames ==
    AlignedDesNames \cup
    {"fetch_unaligned_unsigned", "fetch_unaligned_signed", "fetch_unaligned_bytes",
     "fetch_unaligned_array_of_bits", "fetch_unaligned_bit"}

\* The record of an operation op issued on the deserializer h, whose cursor was at
\* pre, with the outcome d.
DesLast(h, op, pre, d) ==
    [h |-> h, c |-> "none", name |-> op.name, n |-> op.n, w |-> 0, x |-> <<>>,
     pre |-> pre, err |-> d.err, kind |-> d.kind, val |-> d.val, top |-> 0 - 1]

\* ----------------------------------------- a single Deserializer (DesFlat)

\* Largest source, in bytes.
MaxSrc == 3

\* Largest number of zero bytes appended to the source of the twin.
MaxPad == 2

\* How far beyond the end of its source, in bytes, the cursor may be when an
\* operation is issued.
MaxOver == 2

\* Sources: the first bytes of the sample of _unittest_deserializer_fork_bytes and
\* of an all-ones sample; from the fourth byte on the top bit is clear, so that a
\* 32-bit read stays below 2^31.
SrcPatterns == {<<167, 239, 205, 43, 16>>, <<255, 255, 255, 127, 127>>}

Sources == {SubSeq(p, 1, n) : p \in SrcPatterns, n \in 0..MaxSrc}

FlatDesOps ==
    {DesOp("skip_bits", n) : n \in {1, 8}}
    \cup {DesOp("pad_to_alignment", 8)}
    \cup {DesOp(name, 0) : name \in
            {"fetch_aligned_u8", "fetch_aligned_u16", "fetch_aligned_u32",
             "fetch_aligned_u64", "fetch_aligned_i8", "fetch_aligned_i16",
             "fetch_aligned_i32", "fetch_aligned_i64", "fetch_unaligned_bit"}}
    \cup {DesOp("fetch_aligned_unsigned", n) : n \in {1, 12}}
    \cup {DesOp("fetch_aligned_signed", n) : n \in {2, 9}}
    \cup {DesOp("fetch_aligned_bytes", n) : n \in {0, 2}}
    \cup {DesOp("fetch_aligned_array_of_bits", n) : n \in {0, 11}}
    \cup {DesOp("fetch_unaligned_unsigned", n) : n \in {1, 11}}
    \cup {DesOp("fetch_unaligned_signed", n) : n \in {2, 8}}
    \cup {DesOp("fetch_unaligned_bytes", n) : n \in {0, 1, 2}}
    \cup {DesOp("fetch_unaligned_array_of_bits", n) : n \in {0, 3, 10}}

InitDesFlat ==
    /\ pc = "des"
    /\ steps = 0
    /\ mem = <<>>
    /\ ser = [h \in Handles |-> NoSer]
    /\ ref = SerState(<<>>, 0)
    /\ \E b \in Sources, k \in 0..MaxPad :
          /\ des = [h \in Handles |->
                      IF h = "M" THEN [live |-> TRUE, base |-> 0, buf |-> ZebNew(<<b>>), off |-> 0]
                      ELSE NoDes]
          /\ twin = DesNew(<<b \o Zeros(k)>>)
    /\ rt = NoRt
    /\ raised = FALSE
    /\ numpy_wraps = TRUE
    /\ last = NoLast
    /\ call = NoCall

\* An operation issued on M and, alike, on the twin.
DesFlatStep ==
    /\ pc = "des"
    /\ des["M"].off <= 8 * (Len(des["M"].buf) + MaxOver)
    /\ \E op \in FlatDesOps :
          LET d == DesExec(DesState(des["M"].buf, des["M"].off), op)
              z == DesExec(DesState(twin.buf, twin.off), op)
          IN /\ des' = [des EXCEPT !["M"].off = d.off]
             /\ twin' = z
             /\ last' = DesLast("M", op, des["M"].off, d)
    /\ UNCHANGED <<pc, steps, mem, ser, ref, rt, raised, numpy_wraps, call>>

NextDesFlat == DesFlatStep

SpecDesFlat == InitDesFlat /\ [][NextDesFlat]_vars

\* What the caller owes an operation: an aligned cursor for the aligned reads.
DesPrecondition(name, pre) == name \in AlignedDesNames => pre % 8 = 0

\* The all-zero value of the type an operation returns.
ZeroValue(op) ==
    CASE DesOpKind(op) \in {"int", "bool"} -> <<0>>
      [] DesOpKind(op) = "bytes" -> Zeros(op.n)
      [] DesOpKind(op) = "bits" -> Zeros(op.n)
      [] OTHER -> <<>>

LastDesOp == DesOp(last.name, last.n)

\* A fetch was issued on M with no bit remaining.
FetchedPastEnd ==
    /\ pc = "des"
    /\ last.name \in FetchNames
    /\ DesPrecondition(last.name, last.pre)
    /\ 8 * Len(des["M"].buf) - last.pre <= 0

\* C2: a fetch issued when remaining_bit_length <= 0 (the aligned reads at an aligned
\* cursor, the unaligned ones at any) raises nothing, returns the all-zero value of
\* its type, and remaining_bit_length goes down by exactly the bits requested.
C2_ZeroExtension ==
    FetchedPastEnd =>
        /\ last.err = "none"
        /\ last.kind = DesOpKind(LastDesOp)
        /\ last.val = ZeroValue(LastDesOp)
        /\ RemainingBitLength(des["M"]) =
              (8 * Len(des["M"].buf) - last.pre) - DesOpBits(LastDesOp)
        /\ RemainingBitLength(des["M"]) <= 0

\* C2 witness: an unaligned multi-byte read issued past the end of a non-empty source.
C2_Witness ==
    /\ FetchedPastEnd
    /\ last.name = "fetch_unaligned_unsigned"
    /\ last.n = 11
    /\ last.pre % 8 # 0
    /\ Len(des["M"].buf) = MaxSrc
    /\ RemainingBitLength(des["M"]) < 0

\* C3: a deserializer over B and one over B followed by zero bytes, given the same
\* operations, return the same from every operation and have the same cursor.
C3_ZeroExtensionEquivalence ==
    pc = "des" =>
        /\ twin.off = des["M"].off
        /\ twin.err = last.err
        /\ twin.kind = last.kind
        /\ twin.val = last.val

\* C3 witness: an unaligned read that straddles the end of B, where the twin has
\* zero bytes appended and the read returned bits of B.
C3_Witness ==
    /\ pc = "des"
    /\ last.name = "fetch_unaligned_bytes"
    /\ last.n = 2
    /\ last.pre % 8 # 0
    /\ last.pre < 8 * Len(des["M"].buf)
    /\ last.pre + 16 > 8 * Len(des["M"].buf)
    /\ Len(twin.buf) > Len(des["M"].buf)
    /\ last.val[1] # 0
    /\ last.err = "none"

\* ------------------------------------------- integer round trip (RoundTrip)

\* Largest bit width of the round trip.
MaxWidth == 10

\* The values representable in w bits.
Representable(signed, w) ==
    IF signed THEN (0 - 2 ^ (w - 1))..(2 ^ (w - 1) - 1) ELSE 0..(2 ^ w - 1)

\* The cases: the aligned pair of operations at offset 0, the unaligned pair at
\* every offset 0..7; unsigned from one bit, signed from two.
InitRoundTrip ==
    /\ pc = "rt_new"
    /\ steps = 0
    /\ \E sg \in BOOLEAN, al \in BOOLEAN, w \in 1..MaxWidth, k \in 0..7 :
          /\ sg => w >= 2
          /\ al => k = 0
          /\ \E v \in Representable(sg, w) :
                rt = [signed |-> sg, aligned |-> al, w |-> w, v |-> v, k |-> k]
          \* Serializer.new with room for exactly k + w bits
          /\ mem = SerNew((k + w + 7) \div 8).buf
          /\ ser = [h \in Handles |->
                      IF h = "M" THEN [live |-> TRUE, base |-> 0,
                                       len |-> (k + w + 7) \div 8 + EXTRA_BUFFER_CAPACITY_BYTES,
                                       off |-> 0, used |-> 0]
                      ELSE NoSer]
    /\ ref = SerState(<<>>, 0)
    /\ des = [h \in Handles |-> NoDes]
    /\ twin = DesState(<<>>, 0)
    /\ raised = FALSE
    /\ numpy_wraps = TRUE
    /\ last = NoLast
    /\ call = NoCall

\* The write of the round trip, by the pair of operations of the case.
RtAddOf(s) ==
    CASE rt.signed /\ rt.aligned   -> AddAlignedSigned(s, rt.v, rt.w)
      [] rt.signed /\ ~rt.aligned  -> AddUnalignedSigned(s, rt.v, rt.w)
      [] ~rt.signed /\ rt.aligned  -> AddAlignedUnsigned(s, rt.v, rt.w)
      [] ~rt.signed /\ ~rt.aligned -> AddUnalignedUnsigned(s, rt.v, rt.w)

RtAddName ==
    CASE rt.signed /\ rt.aligned   -> "add_aligned_signed"
      [] rt.signed /\ ~rt.aligned  -> "add_unaligned_signed"
      [] ~rt.signed /\ rt.aligned  -> "add_aligned_unsigned"
      [] ~rt.signed /\ ~rt.aligned -> "add_unaligned_unsigned"

RtFetchOp ==
    CASE rt.signed /\ rt.aligned   -> DesOp("fetch_aligned_signed", rt.w)
      [] rt.signed /\ ~rt.aligned  -> DesOp("fetch_unaligned_signed", rt.w)
      [] ~rt.signed /\ rt.aligned  -> DesOp("fetch_aligned_unsigned", rt.w)
      [] ~rt.signed /\ ~rt.aligned -> DesOp("fetch_unaligned_unsigned", rt.w)

\* ser.skip_bits(k)
RtSkipWrite ==
    /\ pc = "rt_new"
    /\ LET s == SerSkipBits(SerState(mem, ser["M"].off), rt.k)
       IN /\ ser' = [ser EXCEPT !["M"].off = s.off]
          /\ mem' = s.buf
          /\ last' = [NoLast EXCEPT !.h = "M", !.name = "skip_bits", !.n = rt.k,
                                    !.pre = ser["M"].off, !.err = s.err]
    /\ pc' = "rt_skipped"
    /\ raised' = (raised \/ last'.err # "none")
    /\ UNCHANGED <<steps, ref, des, twin, rt, numpy_wraps, call>>

\* ser.add_*(v, w)
RtAdd ==
    /\ pc = "rt_skipped"
    /\ LET s == RtAddOf(SerState(mem, ser["M"].off))
       IN /\ ser' = [ser EXCEPT !["M"].off = s.off]
          /\ mem' = s.buf
          /\ last' = [NoLast EXCEPT !.h = "M", !.name = RtAddName, !.n = rt.v, !.w = rt.w,
                                    !.pre = ser["M"].off, !.err = s.err]
    /\ pc' = IF last'.err = "none" THEN "rt_written" ELSE "rt_failed"
    /\ raised' = (raised \/ last'.err # "none")
    /\ UNCHANGED <<steps, ref, des, twin, rt, numpy_wraps, call>>

\* des = Deserializer.new([ser.buffer]); des.skip_bits(k)
RtOpen ==
    /\ pc = "rt_written"
    /\ LET d0 == DesNew(<<SerBuffer(SerState(mem, ser["M"].off))>>)
           d  == DesSkipBits(d0, rt.k)
       IN /\ des' = [des EXCEPT !["M"] = [live |-> TRUE, base |-> 0, buf |-> d.buf, off |-> d.off]]
          /\ last' = DesLast("M", DesOp("skip_bits", rt.k), 0, d)
    /\ pc' = "rt_opened"
    /\ UNCHANGED <<steps, mem, ser, ref, twin, rt, raised, numpy_wraps, call>>

\* des.fetch_*(w)
RtFetch ==
    /\ pc = "rt_opened"
    /\ LET d == DesExec(DesState(des["M"].buf, des["M"].off), RtFetchOp)
       IN /\ des' = [des EXCEPT !["M"].off = d.off]
          /\ last' = DesLast("M", RtFetchOp, des["M"].off, d)
    /\ pc' = "rt_read"
    /\ UNCHANGED <<steps, mem, ser, ref, twin, rt, raised, numpy_wraps, call>>

NextRoundTrip == RtSkipWrite \/ RtAdd \/ RtOpen \/ RtFetch

SpecRoundTrip == InitRoundTrip /\ [][NextRoundTrip]_vars

\* C1: the value written by add_(un)aligned_(un)signed(v, w) after skip_bits(k) on a
\* fresh Serializer is the value fetch_(un)aligned_(un)signed(w) returns after
\* skip_bits(k) on a Deserializer over the Serializer's buffer; no step raises.
C1_IntegerRoundTrip ==
    /\ pc # "rt_failed"
    /\ pc = "rt_read" =>
          /\ last.err = "none"
          /\ last.kind = "int"
          /\ last.val = <<rt.v>>
          /\ des["M"].off = rt.k + rt.w

\* C1 witness: a negative value of ten bits, which lies in three bytes at bit offset
\* 7, is read back.
C1_Witness ==
    /\ pc = "rt_read"
    /\ rt.signed /\ ~rt.aligned /\ rt.k = 7 /\ rt.w = 10 /\ rt.v = 0 - 2
    /\ last.val = <<0 - 2>>

\* --------------------------------------- operations issued on a Serializer

\* An operation is its name, its integer arguments n (a value, a bit count or an
\* alignment) and w (a bit length), and its array argument x (bytes, or bits as 0/1).
SerOp(name, n, w, x) == [name |-> name, n |-> n, w |-> w, x |-> x]

\* The value given to add_aligned_u32 and add_aligned_u64: n, or the integer whose
\* base-65536 digits are x when x is given.
OpWide(op) == IF op.x = <<>> THEN WideOf(op.n) ELSE Wide(FALSE, op.x)

\* The value given to add_aligned_i32 and add_aligned_i64: n, or the integer of the
\* sign of n whose magnitude has the base-65536 digits x when x is given.
OpSigned(op) ==
    IF op.x # <<>> THEN Wide(op.n < 0, op.x)
    ELSE IF op.n < 0 THEN Wide(TRUE, <<(0 - op.n) % 65536, (0 - op.n) \div 65536>>)
    ELSE Wide(FALSE, <<op.n % 65536, op.n \div 65536>>)

\* The value given to the float writers: n * 2^w.
OpFloat(op) == FloatValue(op.n < 0, IF op.n < 0 THEN 0 - op.n ELSE op.n, op.w)

SerExec(s, op) ==
    CASE op.name = "skip_bits"                   -> SerSkipBits(s, op.n)
      [] op.name = "pad_to_alignment"            -> SerPadToAlignment(s, op.n)
      [] op.name = "add_aligned_array_of_bits"   -> AddAlignedArrayOfBits(s, op.x)
      [] op.name = "add_aligned_bytes"           -> AddAlignedBytes(s, op.x)
      [] op.name = "add_aligned_u8"              -> AddAlignedU8(s, op.n)
      [] op.name = "add_aligned_u16"             -> AddAlignedU16(s, op.n)
      [] op.name = "add_aligned_u32"             -> AddAlignedU32(s, OpWide(op))
      [] op.name = "add_aligned_u64"             -> AddAlignedU64(s, OpWide(op))
      [] op.name = "add_aligned_i8"              -> AddAlignedI8(s, op.n)
      [] op.name = "add_aligned_i16"             -> AddAlignedI16(s, op.n)
      [] op.name = "add_aligned_i32"             -> AddAlignedI32(s, OpSigned(op))
      [] op.name = "add_aligned_i64"             -> AddAlignedI64(s, OpSigned(op))
      [] op.name = "add_aligned_unsigned"        -> AddAlignedUnsigned(s, op.n, op.w)
      [] op.name = "add_aligned_signed"          -> AddAlignedSigned(s, op.n, op.w)
      [] op.name = "add_unaligned_array_of_bits" -> AddUnalignedArrayOfBits(s, op.x)
      [] op.name = "add_unaligned_bytes"         -> AddUnalignedBytes(s, op.x)
      [] op.name = "add_unaligned_unsigned"      -> AddUnalignedUnsigned(s, op.n, op.w)
      [] op.name = "add_unaligned_signed"        -> AddUnalignedSigned(s, op.n, op.w)
      [] op.name = "add_unaligned_bit"           -> AddUnalignedBit(s, op.n)
      [] op.name = "add_aligned_f16"             -> AddAlignedF16(s, OpFloat(op))
      [] op.name = "add_aligned_f32"             -> AddAlignedF32(s, OpFloat(op))
      [] op.name = "add_aligned_f64"             -> AddAlignedF64(s, OpFloat(op))
      [] op.name = "add_unaligned_f16"           -> AddUnalignedF16(s, OpFloat(op))
      [] op.name = "add_unaligned_f32"           -> AddUnalignedF32(s, OpFloat(op))
      [] op.name = "add_unaligned_f64"           -> AddUnalignedF64(s, OpFloat(op))

\* The bits an operation is asked to write or skip when the cursor is at off.
SerOpBits(op, off) ==
    CASE op.name = "skip_bits" -> op.n
      [] op.name = "pad_to_alignment" -> (op.n - (off % op.n)) % op.n
      [] op.name \in {"add_aligned_array_of_bits", "add_unaligned_array_of_bits"} -> Len(op.x)
      [] op.name \in {"add_aligned_bytes", "add_unaligned_bytes"} -> 8 * Len(op.x)
      [] op.name \in {"add_aligned_u8", "add_aligned_i8"} -> 8
      [] op.name \in {"add_aligned_u16", "add_aligned_i16"} -> 16
      [] op.name \in {"add_aligned_u32", "add_aligned_i32"} -> 32
      [] op.name \in {"add_aligned_u64", "add_aligned_i64"} -> 64
      [] op.name = "add_unaligned_bit" -> 1
      [] op.name \in {"add_aligned_f16", "add_unaligned_f16"} -> 16
      [] op.name \in {"add_aligned_f32", "add_unaligned_f32"} -> 32
      [] op.name \in {"add_aligned_f64", "add_unaligned_f64"} -> 64
      [] OTHER -> op.w

\* The bytes of the serializer v, a window of the root array m.
View(m, v) == SubSeq(m, v.base + 1, v.base + v.len)

\* The root array after the serializer v has left buf in its window.
WriteBack(m, v, buf) ==
    [i \in 1..Len(m) |-> IF v.base < i /\ i <= v.base + v.len THEN buf[i - v.base] ELSE m[i]]

SerLast(h, op, pre, s) ==
    [h |-> h, c |-> "none", name |-> op.name, n |-> op.n, w |-> op.w, x |-> op.x,
     pre |-> pre, err |-> s.err, kind |-> "none", val |-> <<>>, top |-> s.top]

\* ------------------------------------------ the tree of Serializers (SerTree)

\* A fork is requested of M for F and of F for FF.
ForkPairs == {<<"M", "F">>, <<"F", "FF">>}

TreeSerOps ==
    {SerOp("add_aligned_u8", 165, 0, <<>>),
     SerOp("add_aligned_bytes", 0, 0, <<1, 128>>),
     SerOp("add_unaligned_unsigned", 5, 3, <<>>),
     SerOp("add_unaligned_bit", 1, 0, <<>>),
     SerOp("skip_bits", 1, 0, <<>>),
     SerOp("skip_bits", 8, 0, <<>>),
     SerOp("pad_to_alignment", 8, 0, <<>>)}

InitSerTree ==
    /\ pc = "sertree"
    /\ steps = 0
    /\ mem = SerNew(SerSize).buf
    /\ ser = [h \in Handles |->
                IF h = "M" THEN [live |-> TRUE, base |-> 0, len |-> Len(SerNew(SerSize).buf),
                                 off |-> 0, used |-> 0]
                ELSE NoSer]
    /\ ref = SerState(<<>>, 0)
    /\ des = [h \in Handles |-> NoDes]
    /\ twin = DesState(<<>>, 0)
    /\ rt = NoRt
    /\ raised = FALSE
    /\ numpy_wraps = TRUE
    /\ last = NoLast
    /\ call = NoCall

\* An operation issued on the serializer h.
SerTreeOp(h) ==
    /\ pc = "sertree"
    /\ steps < MaxSerOps
    /\ ser[h].live
    /\ \E op \in TreeSerOps :
          LET s == SerExec(SerState(View(mem, ser[h]), ser[h].off), op)
          IN /\ mem' = WriteBack(mem, ser[h], s.buf)
             /\ ser' = [ser EXCEPT ![h].off = s.off,
                                   ![h].used = @ + SerOpBits(op, ser[h].off)]
             /\ last' = SerLast(h, op, ser[h].off, s)
    /\ raised' = (raised \/ last'.err # "none")
    /\ steps' = steps + 1
    /\ UNCHANGED <<pc, ref, des, twin, rt, numpy_wraps, call>>

\* Mutant of the fork: it advances the parent past the child's window.
SerTreeFork_AdvancesParent(p, c) ==
    /\ pc = "sertree"
    /\ steps < MaxSerOps
    /\ ser[p].live
    /\ \E size \in 0..(SerSize + 1) :
          LET f == SerForkBytes(SerState(View(mem, ser[p]), ser[p].off), size)
          IN /\ ser' = IF f.err = "none"
                       THEN [ser EXCEPT ![c] = [live |-> TRUE, base |-> ser[p].base + f.start,
                                                len |-> f.len, off |-> 0, used |-> 0],
                                        ![p].off = @ + 8 * size]
                       ELSE ser
             /\ last' = [NoLast EXCEPT !.h = p, !.c = c, !.name = "fork_bytes", !.n = size,
                                       !.pre = ser[p].off, !.err = f.err]
    /\ raised' = (raised \/ last'.err # "none")
    /\ steps' = steps + 1
    /\ UNCHANGED <<pc, mem, ref, des, twin, rt, numpy_wraps, call>>

\* c = p.fork_bytes(size)
SerTreeFork(p, c) ==
    /\ pc = "sertree"
    /\ steps < MaxSerOps
    /\ ser[p].live
    /\ \E size \in 0..(SerSize + 1) :
          LET f == SerForkBytes(SerState(View(mem, ser[p]), ser[p].off), size)
          IN /\ ser' = IF f.err = "none"
                       THEN [ser EXCEPT ![c] = [live |-> TRUE, base |-> ser[p].base + f.start,
                                                len |-> f.len, off |-> 0, used |-> 0]]
                       ELSE ser
             /\ last' = [NoLast EXCEPT !.h = p, !.c = c, !.name = "fork_bytes", !.n = size,
                                       !.pre = ser[p].off, !.err = f.err]
    /\ raised' = (raised \/ last'.err # "none")
    /\ steps' = steps + 1
    /\ UNCHANGED <<pc, mem, ref, des, twin, rt, numpy_wraps, call>>

NextSerTree ==
    \/ \E h \in Handles : SerTreeOp(h)
    \/ \E pair \in ForkPairs : SerTreeFork(pair[1], pair[2])

SpecSerTree == InitSerTree /\ [][NextSerTree]_vars

\* ---------------------------------------- the tree of Deserializers (DesTree)

\* Largest number of operations in one run of the deserializer tree.
MaxDesOps == 4

\* The source of the root deserializer.
TreeSource == SubSeq(<<167, 239, 205, 43, 16>>, 1, MaxSrc)

TreeDesOps ==
    {DesOp("fetch_aligned_u8", 0),
     DesOp("fetch_aligned_u16", 0),
     DesOp("fetch_unaligned_bit", 0),
     DesOp("fetch_unaligned_bytes", 2),
     DesOp("skip_bits", 8)}

InitDesTree ==
    /\ pc = "destree"
    /\ steps = 0
    /\ mem = <<>>
    /\ ser = [h \in Handles |-> NoSer]
    /\ ref = SerState(<<>>, 0)
    /\ des = [h \in Handles |->
                IF h = "M" THEN [live |-> TRUE, base |-> 0, buf |-> DesNew(<<TreeSource>>).buf,
                                 off |-> 0]
                ELSE NoDes]
    /\ twin = DesState(<<>>, 0)
    /\ rt = NoRt
    /\ raised = FALSE
    /\ numpy_wraps = TRUE
    /\ last = NoLast
    /\ call = NoCall

\* Mutant of an operation on a deserializer: a fork has the cursor of its parent M,
\* not one of its own.
DesTreeOp_SharedCursor(h) ==
    /\ pc = "destree"
    /\ steps < MaxDesOps
    /\ des[h].live
    /\ \E op \in TreeDesOps :
          LET d == DesExec(DesState(des[h].buf, des[h].off), op)
          IN /\ des' = [des EXCEPT ![h].off = d.off, !["M"].off = d.off]
             /\ last' = DesLast(h, op, des[h].off, d)
    /\ steps' = steps + 1
    /\ UNCHANGED <<pc, mem, ser, ref, twin, rt, raised, numpy_wraps, call>>

\* An operation issued on the deserializer h.
DesTreeOp(h) ==
    /\ pc = "destree"
    /\ steps < MaxDesOps
    /\ des[h].live
    /\ \E op \in TreeDesOps :
          LET d == DesExec(DesState(des[h].buf, des[h].off), op)
          IN /\ des' = [des EXCEPT ![h].off = d.off]
             /\ last' = DesLast(h, op, des[h].off, d)
    /\ steps' = steps + 1
    /\ UNCHANGED <<pc, mem, ser, ref, twin, rt, raised, numpy_wraps, call>>

\* c = p.fork_bytes(size)
DesTreeFork(p, c) ==
    /\ pc = "destree"
    /\ steps < MaxDesOps
    /\ des[p].live
    /\ \E size \in 0..(MaxSrc + 1) :
          LET f == DesForkBytes(DesState(des[p].buf, des[p].off), size)
          IN /\ des' = IF f.err = "none"
                       THEN [des EXCEPT ![c] = [live |-> TRUE,
                                                base |-> des[p].base + DesByteOffset(des[p]),
                                                buf |-> DesNew(<<f.val>>).buf, off |-> 0]]
                       ELSE des
             /\ last' = [NoLast EXCEPT !.h = p, !.c = c, !.name = "fork_bytes", !.n = size,
                                       !.pre = des[p].off, !.err = f.err]
    /\ steps' = steps + 1
    /\ UNCHANGED <<pc, mem, ser, ref, twin, rt, raised, numpy_wraps, call>>

NextDesTree ==
    \/ \E h \in Handles : DesTreeOp(h)
    \/ \E pair \in ForkPairs : DesTreeFork(pair[1], pair[2])

SpecDesTree == InitDesTree /\ [][NextDesTree]_vars

\* Both trees: a run is a run of the one or of the other.
SpecForkTrees == (InitSerTree \/ InitDesTree) /\ [][NextSerTree \/ NextDesTree]_vars

\* -------------------------------------------------- claims on the forks

\* Bit j of the value the latest operation returned.
RetBit(j) ==
    IF last.kind \in {"int", "bool"} THEN (last.val[1] \div (2 ^ j)) % 2
    ELSE IF last.kind = "bits" THEN last.val[j + 1]
    ELSE BitOfSeq(last.val, j)

\* The fork the latest operation returned.
DesForked == pc = "destree" /\ last.name = "fork_bytes" /\ last.err = "none"

\* C5: a forked Deserializer starts with consumed_bit_length 0 and
\* remaining_bit_length 8 * size; every bit a deserializer reads is the bit of the
\* root source at its window's offset plus its cursor while that lies in its own
\* window, and zero beyond, whatever the root source holds there.
C5_DesForkIsolation ==
    /\ DesForked =>
          /\ des[last.c].live
          /\ ConsumedBitLength(des[last.c]) = 0
          /\ RemainingBitLength(des[last.c]) = 8 * last.n
          /\ des[last.c].base = des[last.h].base + last.pre \div 8
    /\ (pc = "destree" /\ last.name \in FetchNames /\ last.err = "none") =>
          \A j \in 0..(DesOpBits(LastDesOp) - 1) :
             RetBit(j) = IF last.pre + j < 8 * Len(des[last.h].buf)
                         THEN BitOfSeq(des["M"].buf, 8 * des[last.h].base + last.pre + j)
                         ELSE 0

\* C5 witness: a fork of a fork that ends before the end of the root source has
\* read two bytes, the first its last own byte and the second beyond its window.
C5_Witness ==
    /\ pc = "destree"
    /\ last.h = "FF"
    /\ last.name = "fetch_aligned_u16"
    /\ last.err = "none"
    /\ last.pre + 8 = 8 * Len(des["FF"].buf)
    /\ des["FF"].base + Len(des["FF"].buf) < Len(des["M"].buf)
    /\ des["M"].buf[des["FF"].base + Len(des["FF"].buf) + 1] # 0
    /\ last.val[1] = des["M"].buf[des["FF"].base + Len(des["FF"].buf)]
    /\ last.val[1] # 0

\* C6: an operation on one deserializer leaves the cursor and the window of every
\* other deserializer as they were, and the bytes of its own window too.
C6_DesForkIndependence ==
    [][(pc = "destree" /\ steps' # steps) =>
          /\ \A g \in Handles :
                (g # last'.h /\ ~(last'.name = "fork_bytes" /\ g = last'.c)) =>
                    des'[g] = des[g]
          /\ des'[last'.h].buf = des[last'.h].buf
          /\ des'[last'.h].base = des[last'.h].base]_vars

\* C6 witness: M reads after its fork F has read and while F's fork FF is live.
C6_Witness ==
    /\ pc = "destree"
    /\ last.h = "M"
    /\ last.name = "fetch_aligned_u8"
    /\ last.err = "none"
    /\ last.val[1] = des["M"].buf[1]
    /\ des["F"].live /\ des["F"].off = 16
    /\ des["FF"].live

\* The latest operation was a fork_bytes requested of a serializer, of a deserializer.
SerForkCalled == pc = "sertree" /\ last.name = "fork_bytes"

DesForkCalled == pc = "destree" /\ last.name = "fork_bytes"

\* C7: fork_bytes, whether it returns or raises, leaves the cursor of the parent and
\* every byte of its buffer as they were; the child it returns has cursor 0.
C7_ForkLeavesParent ==
    [][(last'.name = "fork_bytes" /\ steps' # steps) =>
          /\ mem' = mem
          /\ ser'[last'.h] = ser[last'.h]
          /\ des'[last'.h] = des[last'.h]
          /\ pc = "sertree" =>
                /\ ser'[last'.h].off = last'.pre
                /\ last'.err = "none" => ser'[last'.c].live /\ ser'[last'.c].off = 0
          /\ pc = "destree" =>
                /\ des'[last'.h].off = last'.pre
                /\ last'.err = "none" => des'[last'.c].live /\ des'[last'.c].off = 0]_vars

\* C7 witness: a serializer that has written a byte and moved its cursor has forked.
C7_Witness ==
    /\ SerForkCalled
    /\ last.err = "none"
    /\ last.pre = 8
    /\ ser[last.h].off = 8
    /\ ser[last.c].live /\ ser[last.c].off = 0
    /\ View(mem, ser[last.h])[1] = 165

\* C8: Serializer.fork_bytes(size) returns if and only if the cursor is byte-aligned
\* and size + 1 <= len(buf) - bit_offset / 8, and raises ValueError otherwise; the
\* child's buffer is the size + 1 bytes of the parent's from its byte offset on.
C8_SerForkBytes ==
    SerForkCalled =>
        /\ last.err \in {"none", "ValueError"}
        /\ last.err = "none" <=>
              (last.pre % 8 = 0 /\ last.n + 1 <= ser[last.h].len - last.pre \div 8)
        /\ last.err = "none" =>
              /\ ser[last.c].live
              /\ ser[last.c].len = last.n + 1
              /\ ser[last.c].base = ser[last.h].base + last.pre \div 8
              /\ ser[last.c].base + ser[last.c].len <= ser[last.h].base + ser[last.h].len
              /\ View(mem, ser[last.c]) =
                    SubSeq(View(mem, ser[last.h]), last.pre \div 8 + 1,
                           last.pre \div 8 + last.n + 1)

\* C8 witness: the largest fork that fits, taken after a byte was written.
C8_Witness ==
    /\ SerForkCalled
    /\ last.err = "none"
    /\ last.h = "M"
    /\ last.pre = 8
    /\ last.n + 1 = ser["M"].len - 1
    /\ mem[1] # 0

\* C9: Deserializer.fork_bytes(size) returns if and only if the cursor is
\* byte-aligned and 8 * size <= remaining_bit_length, and raises ValueError
\* otherwise; the child is over exactly size bytes.
C9_DesForkBytes ==
    DesForkCalled =>
        /\ last.err \in {"none", "ValueError"}
        /\ last.err = "none" <=>
              (last.pre % 8 = 0 /\ 8 * last.n <= 8 * Len(des[last.h].buf) - last.pre)
        /\ last.err = "none" =>
              /\ des[last.c].live
              /\ Len(des[last.c].buf) = last.n
              /\ des[last.c].buf =
                    SubSeq(des[last.h].buf, last.pre \div 8 + 1, last.pre \div 8 + last.n)

\* C9 witness: a fork of size 0 refused because the cursor is past the end.
C9_Witness ==
    /\ DesForkCalled
    /\ last.err = "ValueError"
    /\ last.pre % 8 = 0
    /\ last.pre > 8 * Len(des[last.h].buf)
    /\ last.n = 0

\* C10 as claimed: after operations none of which raised, the cursor of every
\* serializer is at most (len(buf) - 1) * 8.
C10_CursorInvariant_AsClaimed ==
    (pc = "sertree" /\ ~raised) =>
        \A h \in Handles :
           ser[h].live => 0 <= ser[h].off /\ ser[h].off <= (ser[h].len - 1) * 8

\* C10 as amended: after operations none of which raised, the cursor of a serializer
\* whose operations were asked to write or skip at most (len(buf) - 1) * 8 bits in
\* all is at most (len(buf) - 1) * 8.
C10_CursorInvariant ==
    (pc = "sertree" /\ ~raised) =>
        \A h \in Handles :
           (ser[h].live /\ ser[h].used <= (ser[h].len - 1) * 8) =>
               0 <= ser[h].off /\ ser[h].off <= (ser[h].len - 1) * 8

\* C10 witness: a fork of size 1 whose cursor an unaligned write, with its
\* backtracking, and a padding have brought to the end of its single byte.
C10_Witness ==
    /\ pc = "sertree"
    /\ ~raised
    /\ last.h = "F"
    /\ last.name = "pad_to_alignment"
    /\ ser["F"].len = 2
    /\ ser["F"].used = 8
    /\ ser["F"].off = 8
    /\ View(mem, ser["F"])[1] = 5

\* ------------------------------- a fork against a reference serializer (Alias)

\* Size, in bytes, requested from Serializer.new for M and for the reference R.
AliasSize == 3

\* Writes issued in one behaviour of the alias harness.
MaxAliasOps == 4

AliasOps ==
    {SerOp("add_aligned_u8", 165, 0, <<>>),
     SerOp("add_unaligned_bytes", 0, 0, <<255>>),
     SerOp("add_unaligned_unsigned", 5, 3, <<>>),
     SerOp("add_unaligned_bit", 1, 0, <<>>),
     SerOp("pad_to_alignment", 8, 0, <<>>)}

InitAlias ==
    /\ pc = "alias_pre"
    /\ steps = 0
    /\ mem = SerNew(AliasSize).buf
    /\ ser = [h \in Handles |->
                IF h = "M" THEN [live |-> TRUE, base |-> 0, len |-> Len(SerNew(AliasSize).buf),
                                 off |-> 0, used |-> 0]
                ELSE NoSer]
    /\ ref = SerNew(AliasSize)
    /\ des = [h \in Handles |-> NoDes]
    /\ twin = DesState(<<>>, 0)
    /\ rt = NoRt
    /\ raised = FALSE
    /\ numpy_wraps = TRUE
    /\ last = NoLast
    /\ call = NoCall

\* The serializer the writes go through in each phase.
AliasWriter ==
    CASE pc = "alias_pre" -> "M"
      [] pc = "alias_f"   -> "F"
      [] pc = "alias_ff"  -> "FF"
      [] OTHER            -> "none"

\* A write, within the size of the writer, issued on the writer and on R alike.
AliasWrite ==
    /\ AliasWriter \in Handles
    /\ steps < MaxAliasOps
    /\ steps' = steps + 1
    /\ LET h == AliasWriter
       IN \E op \in AliasOps :
             /\ ser[h].off + SerOpBits(op, ser[h].off) <= 8 * (ser[h].len - 1)
             /\ LET s == SerExec(SerState(View(mem, ser[h]), ser[h].off), op)
                    r == SerExec(SerState(ref.buf, ref.off), op)
                IN /\ mem' = WriteBack(mem, ser[h], s.buf)
                   /\ ser' = [ser EXCEPT ![h].off = s.off,
                                         ![h].used = @ + SerOpBits(op, ser[h].off)]
                   /\ ref' = r
                   /\ last' = SerLast(h, op, ser[h].off, s)
    /\ raised' = (raised \/ last'.err # "none")
    /\ UNCHANGED <<pc, des, twin, rt, numpy_wraps, call>>

\* F = M.fork_bytes(size), or FF = F.fork_bytes(size)
AliasFork ==
    /\ pc \in {"alias_pre", "alias_f"}
    /\ LET p == AliasWriter
           c == IF p = "M" THEN "F" ELSE "FF"
       IN \E size \in 0..AliasSize :
             LET f == SerForkBytes(SerState(View(mem, ser[p]), ser[p].off), size)
             IN /\ f.err = "none"
                /\ ser' = [ser EXCEPT ![c] = [live |-> TRUE, base |-> ser[p].base + f.start,
                                              len |-> f.len, off |-> 0, used |-> 0]]
                /\ last' = [NoLast EXCEPT !.h = p, !.c = c, !.name = "fork_bytes",
                                          !.n = size, !.pre = ser[p].off, !.err = f.err]
                /\ pc' = IF p = "M" THEN "alias_f" ELSE "alias_ff"
    /\ UNCHANGED <<steps, mem, ref, des, twin, rt, raised, numpy_wraps, call>>

\* The parent skips the whole bytes written through its fork, which is discarded:
\* F.skip_bits(8 * n) after FF, M.skip_bits(8 * n) after F.
AliasJoin ==
    /\ pc \in {"alias_f", "alias_ff"}
    /\ LET c == AliasWriter
           p == IF c = "F" THEN "M" ELSE "F"
       IN /\ ser[c].off % 8 = 0
          /\ LET s == SerSkipBits(SerState(View(mem, ser[p]), ser[p].off), ser[c].off)
             IN /\ mem' = WriteBack(mem, ser[p], s.buf)
                /\ ser' = [ser EXCEPT ![p].off = s.off, ![p].used = @ + ser[c].off,
                                      ![c] = NoSer]
                /\ last' = [NoLast EXCEPT !.h = p, !.c = c, !.name = "skip_bits",
                                          !.n = ser[c].off, !.pre = ser[p].off,
                                          !.err = s.err]
          /\ pc' = IF c = "F" THEN "alias_done" ELSE "alias_f"
    /\ UNCHANGED <<steps, ref, des, twin, rt, raised, numpy_wraps, call>>

NextAlias == AliasWrite \/ AliasFork \/ AliasJoin

SpecAlias == InitAlias /\ [][NextAlias]_vars

\* The bits written through the live forks of M that M has not skipped yet.
AliasPending ==
    (IF ser["F"].live THEN ser["F"].off ELSE 0) + (IF ser["FF"].live THEN ser["FF"].off ELSE 0)

AliasM == SerState(mem, ser["M"].off)

\* C4: once M has skipped the n whole bytes written through its fork (or through a
\* fork of its fork), M.buffer equals the buffer of R, which received the same
\* writes directly, and the cursors are equal; until then R's cursor is ahead of M's
\* by the bits written through the forks.  No write raises on one side only.
C4_SerForkAliasing ==
    /\ pc = "alias_done" =>
          /\ SerBuffer(AliasM) = SerBuffer(ref)
          /\ ser["M"].off = ref.off
    /\ pc \in {"alias_f", "alias_ff"} =>
          /\ ref.off = ser["M"].off + AliasPending
          /\ AliasPending > 0 => ser["M"].off # ref.off
    /\ (pc \in {"alias_pre", "alias_f", "alias_ff"} /\ last.h = AliasWriter
          /\ last.name \notin {"fork_bytes", "skip_bits"}) => last.err = ref.err

\* C4 witness: M has skipped bytes of which one was written through a fork of its
\* fork F and one through F itself, after a byte of its own.
C4_Witness ==
    /\ pc = "alias_done"
    /\ ser["M"].off = 24
    /\ last.n = 16
    /\ SerBuffer(AliasM) = <<165, 255, 165>>
    /\ SerBuffer(ref) = <<165, 255, 165>>

\* ------------------------------------- a single Serializer (SerFlat, SerPair)

\* Size, in bytes, requested from Serializer.new.
FlatSize == 2

\* Operations issued in one run.
MaxFlatOps == 3

FlatSerOps ==
    {SerOp("skip_bits", n, 0, <<>>) : n \in {1, 3, 8}}
    \cup {SerOp("pad_to_alignment", 8, 0, <<>>),
          SerOp("add_unaligned_bit", 1, 0, <<>>),
          SerOp("add_aligned_u8", 165, 0, <<>>),
          SerOp("add_aligned_bytes", 0, 0, <<1, 128>>),
          SerOp("add_aligned_array_of_bits", 0, 0, <<1, 0, 1>>),
          SerOp("add_aligned_unsigned", 48858, 12, <<>>),
          SerOp("add_aligned_signed", 0 - 2, 9, <<>>),
          SerOp("add_unaligned_bytes", 0, 0, <<>>),
          SerOp("add_unaligned_bytes", 0, 0, <<167>>),
          SerOp("add_unaligned_bytes", 0, 0, <<167, 239>>),
          SerOp("add_unaligned_unsigned", 5, 3, <<>>),
          SerOp("add_unaligned_unsigned", 48858, 12, <<>>),
          SerOp("add_unaligned_signed", 0 - 3, 5, <<>>),
          SerOp("add_unaligned_array_of_bits", 0, 0, <<>>),
          SerOp("add_unaligned_array_of_bits", 0, 0, <<1, 1, 0, 1, 1>>),
          SerOp("add_unaligned_array_of_bits", 0, 0, <<1, 0, 0, 0, 0, 0, 0, 1, 1>>)}

\* The aligned operation that an unaligned one stands for.
AlignedCounterpart(op) ==
    CASE op.name = "add_unaligned_bytes"         -> [op EXCEPT !.name = "add_aligned_bytes"]
      [] op.name = "add_unaligned_unsigned"      -> [op EXCEPT !.name = "add_aligned_unsigned"]
      [] op.name = "add_unaligned_signed"        -> [op EXCEPT !.name = "add_aligned_signed"]
      [] op.name = "add_unaligned_array_of_bits" ->
             [op EXCEPT !.name = "add_aligned_array_of_bits"]
      [] OTHER -> op

HasAlignedCounterpart(name) ==
    name \in {"add_unaligned_bytes", "add_unaligned_unsigned", "add_unaligned_signed",
              "add_unaligned_array_of_bits"}

\* No bit of buf at or beyond the bit position off is set.
ZeroTail(buf, off) == \A p \in off..(8 * Len(buf) - 1) : BitOfSeq(buf, p) = 0

InitSerFlat ==
    /\ pc = "serflat"
    /\ steps = 0
    /\ mem = SerNew(FlatSize).buf
    /\ ser = [h \in Handles |->
                IF h = "M" THEN [live |-> TRUE, base |-> 0, len |-> Len(SerNew(FlatSize).buf),
                                 off |-> 0, used |-> 0]
                ELSE NoSer]
    /\ ref = SerNew(FlatSize)
    /\ des = [h \in Handles |-> NoDes]
    /\ twin = DesState(<<>>, 0)
    /\ rt = NoRt
    /\ raised = FALSE
    /\ numpy_wraps = TRUE
    /\ last = NoLast
    /\ call = NoCall

\* An operation within the size requested is issued on M; R is what the aligned
\* counterpart of the operation leaves from the same state of M (the operation
\* itself when it has none or the cursor is not aligned).
SerFlatStep ==
    /\ pc = "serflat"
    /\ steps < MaxFlatOps
    /\ \E op \in FlatSerOps :
          /\ ser["M"].off + SerOpBits(op, ser["M"].off) <= 8 * FlatSize
          /\ LET s == SerExec(SerState(mem, ser["M"].off), op)
                 r == SerExec(SerState(mem, ser["M"].off),
                              IF ser["M"].off % 8 = 0 THEN AlignedCounterpart(op) ELSE op)
             IN /\ mem' = s.buf
                /\ ser' = [ser EXCEPT !["M"].off = s.off,
                                      !["M"].used = @ + SerOpBits(op, ser["M"].off)]
                /\ ref' = r
                /\ last' = [SerLast("M", op, ser["M"].off, s) EXCEPT
                               !.kind = IF ZeroTail(mem, ser["M"].off)
                                        THEN "clean" ELSE "stale"]
    /\ raised' = (raised \/ last'.err # "none")
    /\ steps' = steps + 1
    /\ UNCHANGED <<pc, des, twin, rt, numpy_wraps, call>>

\* A fork F of M writes a byte and is discarded, and M does not skip it: the byte
\* lies ahead of M's cursor.
SerPairChildWrite ==
    /\ pc = "serflat"
    /\ steps < MaxFlatOps
    /\ LET f == SerForkBytes(SerState(mem, ser["M"].off), 1)
       IN /\ f.err = "none"
          /\ LET v == [live |-> TRUE, base |-> f.start, len |-> f.len, off |-> 0, used |-> 0]
                 s == AddAlignedU8(SerState(View(mem, v), 0), 255)
             IN /\ mem' = WriteBack(mem, v, s.buf)
                /\ ref' = SerState(mem', ser["M"].off)
                /\ last' = [NoLast EXCEPT !.h = "M", !.c = "F", !.name = "fork_bytes",
                                          !.n = 1, !.pre = ser["M"].off, !.err = s.err]
    /\ steps' = steps + 1
    /\ UNCHANGED <<pc, ser, des, twin, rt, raised, numpy_wraps, call>>

NextSerFlat == SerFlatStep

SpecSerFlat == InitSerFlat /\ [][NextSerFlat]_vars

NextSerPair == SerFlatStep \/ SerPairChildWrite

SpecSerPair == InitSerFlat /\ [][NextSerPair]_vars

\* An operation was issued on the single serializer M.
SerFlatIssued == pc = "serflat" /\ last.h = "M" /\ last.name # "fork_bytes"

\* C11: while the operations on a serializer made by new(S) are asked to write or skip
\* at most 8 * S bits, every store of an operation, the store of the high fragment of
\* an unaligned write included, addresses an index in 0..S of the S + 1 bytes, and
\* nothing is raised for an index or a slice out of bounds.
C11_OneOverhangByte ==
    (SerFlatIssued /\ ser["M"].used <= 8 * FlatSize) =>
        /\ last.top <= FlatSize
        /\ last.err \in {"none", "AssertionError"}

\* C11 witness: an unaligned write at an unaligned cursor that ends in the last byte
\* requested has stored its high fragment in the extra byte.
C11_Witness ==
    /\ SerFlatIssued
    /\ last.name = "add_unaligned_unsigned"
    /\ last.pre % 8 # 0
    /\ last.err = "none"
    /\ last.top = FlatSize
    /\ ser["M"].off > 8 * (FlatSize - 1)

\* C12: with no fork, after any operations within the size requested no bit of buf at
\* or beyond the cursor is set.
C12_ZeroTail ==
    pc = "serflat" => ZeroTail(mem, ser["M"].off)

\* C12 witness: after a skip of three bits an unaligned byte has been written across a
\* byte boundary; the bits skipped and the bits beyond the cursor are zero.
C12_Witness ==
    /\ SerFlatIssued
    /\ last.name = "add_unaligned_bytes"
    /\ last.x = <<167>>
    /\ last.pre = 3
    /\ ser["M"].off = 11
    /\ SerBuffer(SerState(mem, ser["M"].off)) = <<56, 5>>

UnalignedAtAligned ==
    /\ pc = "serflat"
    /\ last.h = "M"
    /\ HasAlignedCounterpart(last.name)
    /\ last.pre % 8 = 0

\* What the unaligned operation left is what its aligned counterpart leaves.
SameAsAligned ==
    /\ mem = ref.buf
    /\ ser["M"].off = ref.off
    /\ last.err = ref.err

\* C20 as claimed: in every reachable state with an aligned cursor, that of a parent
\* ahead of whose cursor a fork has written included, an unaligned operation leaves
\* the buffer and the cursor that its aligned counterpart leaves.
C20_UnalignedAsAligned_AsClaimed == UnalignedAtAligned => SameAsAligned

\* C20 as amended: it does so when no bit at or beyond the cursor is set.
C20_UnalignedAsAligned == (UnalignedAtAligned /\ last.kind = "clean") => SameAsAligned

\* C20 witness: M has skipped the byte its fork wrote and written a byte with the
\* unaligned operation.
C20_Witness ==
    /\ UnalignedAtAligned
    /\ last.kind = "clean"
    /\ last.name = "add_unaligned_bytes"
    /\ last.pre = 8
    /\ mem = <<255, 167, 0>>
    /\ SameAsAligned

\* ------------------------------------------ scalar writes (SerScalar)

\* Size, in bytes, requested from Serializer.new: room for a 64-bit write.
ScalarSize == 8

\* Writes issued in one run.
MaxScalarOps == 2

\* Values in range, beyond the range and negative for each unsigned writer; the
\* values of 2^31 and more are given by their base-65536 digits.
ScalarOps ==
    {SerOp("add_aligned_u8", n, 0, <<>>) : n \in {165, 421, 0 - 42}}
    \cup {SerOp("add_aligned_u16", n, 0, <<>>) : n \in {48879, 65794, 0 - 1}}
    \cup {SerOp("add_aligned_u32", n, 0, <<>>) : n \in {16909060, 0 - 1}}
    \cup {SerOp("add_aligned_u32", 0, 0, <<772, 258, 1>>)}
    \cup {SerOp("add_aligned_u64", 0 - 1, 0, <<>>)}
    \cup {SerOp("add_aligned_u64", 0, 0, x) : x \in {<<513, 1027, 1541, 2055>>,
                                                     <<513, 1027, 1541, 2055, 255>>}}
    \cup {SerOp("add_aligned_unsigned", n, 12, <<>>) : n \in {5, 48858, 0 - 1}}
    \cup {SerOp("add_unaligned_unsigned", n, 12, <<>>) : n \in {5, 48858, 0 - 1}}
    \cup {SerOp("add_unaligned_unsigned", n, 3, <<>>) : n \in {5, 13}}

\* The unsigned writers, and those among them that assert an aligned cursor before
\* anything else.
UnsignedWriters ==
    {"add_aligned_u8", "add_aligned_u16", "add_aligned_u32", "add_aligned_u64",
     "add_aligned_unsigned", "add_unaligned_unsigned"}

StdWidthWriters ==
    {"add_aligned_u8", "add_aligned_u16", "add_aligned_u32", "add_aligned_u64"}

InitSerScalar ==
    /\ pc = "scalar"
    /\ steps = 0
    /\ mem = SerNew(ScalarSize).buf
    /\ ser = [h \in Handles |->
                IF h = "M" THEN [live |-> TRUE, base |-> 0,
                                 len |-> Len(SerNew(ScalarSize).buf), off |-> 0, used |-> 0]
                ELSE NoSer]
    /\ ref = SerNew(ScalarSize)
    /\ des = [h \in Handles |-> NoDes]
    /\ twin = DesState(<<>>, 0)
    /\ rt = NoRt
    /\ raised = FALSE
    /\ numpy_wraps \in BOOLEAN
    /\ last = NoLast
    /\ call = NoCall

\* skip_bits(k) on the fresh serializer, to start the writes at any bit of a byte.
ScalarSkip ==
    /\ pc = "scalar"
    /\ steps = 0
    /\ ser["M"].off = 0
    /\ \E k \in 1..8 :
          LET s == SerSkipBits(SerState(mem, 0), k)
          IN /\ ser' = [ser EXCEPT !["M"].off = s.off, !["M"].used = @ + k]
             /\ last' = [NoLast EXCEPT !.h = "M", !.name = "skip_bits", !.n = k]
    /\ UNCHANGED <<pc, steps, mem, ref, des, twin, rt, raised, numpy_wraps, call>>

\* A write within the size requested.
ScalarWrite ==
    /\ pc = "scalar"
    /\ steps < MaxScalarOps
    /\ \E op \in ScalarOps :
          /\ ser["M"].off + SerOpBits(op, ser["M"].off) <= 8 * ScalarSize
          /\ LET s == SerExec(SerState(mem, ser["M"].off), op)
             IN /\ mem' = s.buf
                /\ ser' = [ser EXCEPT !["M"].off = s.off,
                                      !["M"].used = @ + SerOpBits(op, ser["M"].off)]
                /\ last' = SerLast("M", op, ser["M"].off, s)
    /\ raised' = (raised \/ last'.err # "none")
    /\ steps' = steps + 1
    /\ UNCHANGED <<pc, ref, des, twin, rt, numpy_wraps, call>>

NextSerScalar == ScalarSkip \/ ScalarWrite

SpecSerScalar == InitSerScalar /\ [][NextSerScalar]_vars

\* The value given to the latest write, as a Python integer of any size.
LastWide == OpWide([name |-> last.name, n |-> last.n, w |-> last.w, x |-> last.x])

\* The width of the latest write.
LastWidth == SerOpBits([name |-> last.name, n |-> last.n, w |-> last.w, x |-> last.x],
                       last.pre)

\* The value of the latest write is 2^width or more.
LastOverflows ==
    /\ ~LastWide.neg
    /\ \/ \E i \in 1..Len(LastWide.d) : 16 * i > LastWidth + 15 /\ LastWide.d[i] # 0
       \/ /\ LastWidth % 16 # 0
          /\ LastWidth \div 16 + 1 <= Len(LastWide.d)
          /\ LastWide.d[LastWidth \div 16 + 1] >= 2 ^ (LastWidth % 16)

\* Bit j of value mod 2^width is bit j of the value.
WideBit(x, j) == (WideByte(x, j \div 8) \div (2 ^ (j % 8))) % 2

\* A write was issued, at an aligned cursor if it is one of the aligned writes.
ScalarIssued(names) ==
    /\ pc = "scalar"
    /\ last.name \in names
    /\ (last.name # "add_unaligned_unsigned" => last.pre % 8 = 0)

\* C13: add_aligned_unsigned and add_unaligned_unsigned given a value of 2^width or
\* more raise nothing, write the width bits of value mod 2^width from the old cursor
\* on, move the cursor by width and leave no bit set at or beyond the new cursor.
C13_UnsignedTruncation ==
    (ScalarIssued({"add_aligned_unsigned", "add_unaligned_unsigned"}) /\ LastOverflows) =>
        /\ last.err = "none"
        /\ ser["M"].off = last.pre + last.w
        /\ \A j \in 0..(last.w - 1) : BitOfSeq(mem, last.pre + j) = WideBit(LastWide, j)
        /\ ZeroTail(mem, ser["M"].off)

\* C13 witness: 0xBEDA written in 12 bits at an unaligned cursor leaves 0xEDA.
C13_Witness ==
    /\ ScalarIssued({"add_unaligned_unsigned"})
    /\ last.n = 48858 /\ last.w = 12
    /\ last.pre = 4
    /\ ser["M"].off = 16
    /\ SerBuffer(SerState(mem, ser["M"].off)) = <<160, 237>>

\* C14: add_aligned_u8, u16, u32 and u64 given a value of 2^width or more raise
\* nothing, write value mod 2^width in width / 8 little-endian bytes and move the
\* cursor by width.
C14_StdWidthOverflow ==
    (ScalarIssued(StdWidthWriters) /\ LastOverflows) =>
        /\ last.err = "none"
        /\ ser["M"].off = last.pre + LastWidth
        /\ \A j \in 0..(LastWidth \div 8 - 1) :
              mem[last.pre \div 8 + j + 1] = WideByte(LastWide, j)

\* C15: an unsigned write given a negative integer raises ValueError and leaves the
\* buffer and the cursor as they were.
C15_NegativeUnsigned ==
    [][(pc = "scalar" /\ last'.name \in UnsignedWriters /\ last' # last
        /\ last'.n < 0
        /\ (last'.name \in {"add_aligned_u8", "add_aligned_unsigned"} => last'.pre % 8 = 0))
       => (last'.err = "ValueError" /\ mem' = mem /\ ser'["M"].off = ser["M"].off)]_vars

\* C15 witness: add_aligned_u32(-1) raised after a byte had been written.
C15_Witness ==
    /\ pc = "scalar"
    /\ last.name = "add_aligned_u32"
    /\ last.n < 0
    /\ last.err = "ValueError"
    /\ last.pre = 8
    /\ mem[1] = 165

\* ------------------------------- arguments of the Deserializer (DesArgs)

\* Operations issued in one run.
MaxArgOps == 2

\* The operations of the Deserializer that take a count or a bit length.
CardinalNames ==
    {"skip_bits", "fetch_aligned_bytes", "fetch_aligned_array_of_bits",
     "fetch_aligned_unsigned", "fetch_unaligned_bytes", "fetch_unaligned_array_of_bits",
     "fetch_unaligned_unsigned"}

ArgDesOps == {DesOp(name, n) : name \in CardinalNames, n \in {0 - 2, 0 - 1, 3, 8}}

InitDesArgs ==
    /\ pc = "desargs"
    /\ steps = 0
    /\ mem = <<>>
    /\ ser = [h \in Handles |-> NoSer]
    /\ ref = SerState(<<>>, 0)
    /\ des = [h \in Handles |->
                IF h = "M" THEN [live |-> TRUE, base |-> 0, buf |-> DesNew(<<TreeSource>>).buf,
                                 off |-> 0]
                ELSE NoDes]
    /\ twin = DesState(<<>>, 0)
    /\ rt = NoRt
    /\ raised = FALSE
    /\ numpy_wraps = TRUE
    /\ last = NoLast
    /\ call = NoCall

DesArgsStep ==
    /\ pc = "desargs"
    /\ steps < MaxArgOps
    /\ \E op \in ArgDesOps :
          LET d == DesExec(DesState(des["M"].buf, des["M"].off), op)
          IN /\ des' = [des EXCEPT !["M"].off = d.off]
             /\ last' = DesLast("M", op, des["M"].off, d)
    /\ steps' = steps + 1
    /\ UNCHANGED <<pc, mem, ser, ref, twin, rt, raised, numpy_wraps, call>>

NextDesArgs == DesArgsStep

SpecDesArgs == InitDesArgs /\ [][NextDesArgs]_vars

\* C16: an operation of the Deserializer given a negative count or bit length raises
\* ValueError and leaves the cursor where it was.
C16_NegativeCardinal ==
    (pc = "desargs" /\ last.name \in CardinalNames /\ last.n < 0) =>
        /\ last.err = "ValueError"
        /\ des["M"].off = last.pre


\* ----------------------------------------- serialize and deserialize (Facade)

\* Largest _EXTENT_BYTES_ of an object given to serialize.
MaxExtent == 2

\* Longest routine, in operations.
MaxRoutine == 2

\* Sequences of at most MaxRoutine elements of S.
RoutinesOver(S) == UNION {[1..n -> S] : n \in 0..MaxRoutine}

\* The operations a _serialize_ routine of a type issues on the serializer it is
\* given: the last raises ValueError.
SerRoutineOps ==
    {SerOp("add_aligned_u8", 165, 0, <<>>),
     SerOp("add_unaligned_unsigned", 5, 3, <<>>),
     SerOp("add_unaligned_bit", 1, 0, <<>>),
     SerOp("skip_bits", 8, 0, <<>>),
     SerOp("add_unaligned_unsigned", 0 - 1, 3, <<>>)}

\* The operations a _deserialize_ routine of a type issues on the deserializer it is
\* given: the last raises ValueError.
DesRoutineOps ==
    {DesOp("fetch_aligned_u8", 0),
     DesOp("fetch_unaligned_unsigned", 3),
     DesOp("fetch_unaligned_bit", 0),
     DesOp("skip_bits", 0 - 1)}

\* How a _deserialize_ routine ends after its operations: it returns the instance it
\* has built, or raises FormatError at data that is not valid for the type, or raises
\* something else.
RoutineEnds == {"return", "FormatError", "KeyError"}

\* The fragments given to deserialize.
FacadeFragments == {<<TreeSource>>, <<<<167>>, SubSeq(TreeSource, 2, MaxSrc)>>, <<<<>>>>}

\* obj._serialize_(ser): the operations are issued in order until one raises; run[i]
\* is the serializer after the first i of them.
RunSerRoutine(s, ops) ==
    LET run[i \in 0..Len(ops)] ==
          IF i = 0 THEN s
          ELSE CHOOSE r \in {IF t.err # "none" THEN t ELSE SerExec(t, ops[i]) :
                                t \in {run[i - 1]}} : TRUE
    IN run[Len(ops)]

\* dtype._deserialize_(deserializer): the operations are issued in order until one
\* raises; the instance is made of the values fetched. run[i] is the deserializer and
\* the values after the first i operations.
RunDesRoutine(d, ops) ==
    LET run[i \in 0..Len(ops)] ==
          IF i = 0 THEN [d |-> d, vals |-> <<>>]
          ELSE CHOOSE r \in
                 {IF t.d.err # "none" THEN t ELSE [d |-> e, vals |-> t.vals \o e.val] :
                    t \in {run[i - 1]},
                    e \in {DesExec(DesState(run[i - 1].d.buf, run[i - 1].d.off), ops[i])}} :
                 TRUE
    IN CHOOSE r \in
         {IF f.d.err # "none" THEN [err |-> f.d.err, val |-> <<>>, off |-> f.d.off]
          ELSE [err |-> "none", val |-> f.vals, off |-> f.d.off] :
            f \in {run[Len(ops)]}} : TRUE

\* The routine of a type: its operations, then its end.
DesRoutine(d, ops, end) ==
    CHOOSE x \in {IF r.err # "none" \/ end = "return" THEN r
                  ELSE [r EXCEPT !.err = end, !.val = <<>>] :
                    r \in {RunDesRoutine(d, ops)}} : TRUE

\* serialize(obj): the error raised, or the fragments yielded.
Serialize(extent, ops) ==
    CHOOSE x \in {IF s.err # "none" THEN [err |-> s.err, out |-> <<>>]
                  ELSE [err |-> "none", out |-> <<SerBuffer(s)>>] :
                    s \in {RunSerRoutine(SerNew(extent), ops)}} : TRUE

\* Mutant of deserialize: every exception is caught.
Deserialize_CatchesAll(fragments, ops, end) ==
    CHOOSE x \in {IF r.err # "none" THEN [err |-> "none", out |-> <<"None">>]
                  ELSE [err |-> "none", out |-> <<"instance", r.val>>] :
                    r \in {DesRoutine(DesNew(fragments), ops, end)}} : TRUE

\* deserialize(dtype, fragments): the error raised, or the value returned, which is
\* None or the instance.
Deserialize(fragments, ops, end) ==
    CHOOSE x \in {IF r.err = "FormatError" THEN [err |-> "none", out |-> <<"None">>]
                  ELSE IF r.err # "none" THEN [err |-> r.err, out |-> <<>>]
                  ELSE [err |-> "none", out |-> <<"instance", r.val>>] :
                    r \in {DesRoutine(DesNew(fragments), ops, end)}} : TRUE

InitFacade ==
    /\ pc = "facade"
    /\ steps = 0
    /\ mem = <<>>
    /\ ser = [h \in Handles |-> NoSer]
    /\ ref = SerState(<<>>, 0)
    /\ des = [h \in Handles |-> NoDes]
    /\ twin = DesState(<<>>, 0)
    /\ rt = NoRt
    /\ raised = FALSE
    /\ numpy_wraps = TRUE
    /\ last = NoLast
    /\ call = NoCall

\* A call of serialize on an object of some extent whose routine issues ops.
FacadeSerialize ==
    /\ pc = "facade"
    /\ \E extent \in 0..MaxExtent, ops \in RoutinesOver(SerRoutineOps) :
          \E s \in {RunSerRoutine(SerNew(extent), ops)}, r \in {Serialize(extent, ops)} :
             call' = [NoCall EXCEPT !.facade = "serialize", !.extent = extent, !.ops = ops,
                                    !.cursor = s.off, !.routine_err = s.err,
                                    !.err = r.err, !.out = r.out]
    /\ pc' = "returned"
    /\ UNCHANGED <<steps, mem, ser, ref, des, twin, rt, raised, last, numpy_wraps>>

\* A call of deserialize with some fragments for a type whose routine issues ops and
\* ends as end says.
FacadeDeserialize ==
    /\ pc = "facade"
    /\ \E fragments \in FacadeFragments, ops \in RoutinesOver(DesRoutineOps),
          end \in RoutineEnds :
          \E q \in {DesRoutine(DesNew(fragments), ops, end)},
             r \in {Deserialize(fragments, ops, end)} :
             call' = [NoCall EXCEPT !.facade = "deserialize", !.fragments = fragments,
                                    !.ops = ops, !.end = end, !.cursor = q.off,
                                    !.routine_err = q.err, !.routine_val = q.val,
                                    !.err = r.err, !.out = r.out]
    /\ pc' = "returned"
    /\ UNCHANGED <<steps, mem, ser, ref, des, twin, rt, raised, last, numpy_wraps>>

NextFacade == FacadeSerialize \/ FacadeDeserialize

SpecFacade == InitFacade /\ [][NextFacade]_vars

\* C17: deserialize returns None without raising when the routine of the type raises
\* FormatError, raises what the routine raises when that is anything else, and
\* returns what the routine returns otherwise.
C17_DeserializeFacade ==
    call.facade = "deserialize" =>
        /\ call.routine_err = "FormatError" => (call.err = "none" /\ call.out = <<"None">>)
        /\ call.routine_err \notin {"none", "FormatError"} =>
              (call.err = call.routine_err /\ call.out = <<>>)
        /\ call.routine_err = "none" =>
              (call.err = "none" /\ call.out = <<"instance", call.routine_val>>)

\* C17 witness: the routine met a ValueError of the core, which deserialize let through.
C17_Witness ==
    /\ call.facade = "deserialize"
    /\ Len(call.ops) = 2
    /\ call.ops[2] = DesOp("skip_bits", 0 - 1)
    /\ call.end = "FormatError"
    /\ call.routine_err = "ValueError"
    /\ call.err = "ValueError"

\* C18: serialize yields one fragment, of ceil(b / 8) bytes, when the routine of the
\* object returns with the cursor at b bits, 0 <= b <= 8 * extent.
C18_SerializeFacade ==
    (call.facade = "serialize" /\ call.routine_err = "none"
     /\ 0 <= call.cursor /\ call.cursor <= 8 * call.extent) =>
        /\ call.err = "none"
        /\ Len(call.out) = 1
        /\ Len(call.out[1]) = (call.cursor + 7) \div 8

\* C18 witness: a routine that leaves the cursor three bits into the second byte.
C18_Witness ==
    /\ call.facade = "serialize"
    /\ call.routine_err = "none"
    /\ call.cursor = 11
    /\ call.extent = 2
    /\ call.out = <<<<165, 5>>>>

\* --------------------------------- writers of the standard widths (StdWidth)

\* Size, in bytes, requested from Serializer.new: room for two 64-bit writes.
StdSize == 16

\* Writes issued in one run.
MaxStdOps == 2

\* Values in range of each writer, the ends of the range included; those of 32 and 64
\* bits are given by their sign and the base-65536 digits of their magnitude.
StdOps ==
    {SerOp("add_aligned_u8", n, 0, <<>>) : n \in {0, 167, 255}}
    \cup {SerOp("add_aligned_i8", n, 0, <<>>) : n \in {0 - 128, 0 - 1, 127}}
    \cup {SerOp("add_aligned_u16", n, 0, <<>>) : n \in {258, 65534, 65535}}
    \cup {SerOp("add_aligned_i16", n, 0, <<>>) : n \in {0 - 32768, 0 - 2, 32767}}
    \cup {SerOp("add_aligned_u32", 0, 0, x) : x \in {<<22136, 4660>>, <<0, 32768>>,
                                                     <<65535, 65535>>}}
    \cup {SerOp("add_aligned_i32", n, 0, x) :
            n \in {0 - 1}, x \in {<<22136, 4660>>, <<0, 32768>>, <<1>>}}
    \cup {SerOp("add_aligned_i32", 1, 0, x) : x \in {<<22136, 4660>>, <<65535, 32767>>}}
    \cup {SerOp("add_aligned_u64", 0, 0, x) :
            x \in {<<52719, 37035, 22136, 4660>>, <<0, 0, 0, 32768>>,
                   <<65535, 65535, 65535, 65535>>}}
    \cup {SerOp("add_aligned_i64", n, 0, x) :
            n \in {0 - 1}, x \in {<<52719, 37035, 22136, 4660>>, <<0, 0, 0, 32768>>, <<1>>}}
    \cup {SerOp("add_aligned_i64", 1, 0, x) :
            x \in {<<52719, 37035, 22136, 4660>>, <<65535, 65535, 65535, 32767>>}}

\* The fetch of the width and signedness of a writer.
StdFetchOf(d, name) ==
    CASE name = "add_aligned_u8"  -> FetchAlignedU8(d)
      [] name = "add_aligned_i8"  -> FetchAlignedI8(d)
      [] name = "add_aligned_u16" -> FetchAlignedU16(d)
      [] name = "add_aligned_i16" -> FetchAlignedI16(d)
      [] name = "add_aligned_u32" -> FetchAlignedU32Wide(d)
      [] name = "add_aligned_i32" -> FetchAlignedI32Wide(d)
      [] name = "add_aligned_u64" -> FetchAlignedU64Wide(d)
      [] name = "add_aligned_i64" -> FetchAlignedI64Wide(d)

InitStdWidth ==
    /\ pc = "std"
    /\ steps = 0
    /\ mem = SerNew(StdSize).buf
    /\ ser = [h \in Handles |->
                IF h = "M" THEN [live |-> TRUE, base |-> 0,
                                 len |-> Len(SerNew(StdSize).buf), off |-> 0, used |-> 0]
                ELSE NoSer]
    /\ ref = SerNew(StdSize)
    /\ des = [h \in Handles |-> NoDes]
    /\ twin = DesState(<<>>, 0)
    /\ rt = NoRt
    /\ raised = FALSE
    /\ numpy_wraps \in BOOLEAN
    /\ last = NoLast
    /\ call = NoCall

\* A write of a value in range, within the size requested; ref keeps the serializer as
\* it was before the write.
StdWrite ==
    /\ pc = "std"
    /\ steps < MaxStdOps
    /\ \E op \in StdOps :
          /\ ser["M"].off + SerOpBits(op, ser["M"].off) <= 8 * StdSize
          /\ \E s \in {SerExec(SerState(mem, ser["M"].off), op)} :
                /\ mem' = s.buf
                /\ ser' = [ser EXCEPT !["M"].off = s.off,
                                      !["M"].used = @ + SerOpBits(op, ser["M"].off)]
                /\ last' = SerLast("M", op, ser["M"].off, s)
    /\ ref' = SerState(mem, ser["M"].off)
    /\ twin' = DesState(<<>>, 0)
    /\ raised' = (raised \/ last'.err # "none")
    /\ steps' = steps + 1
    /\ pc' = "stdread"
    /\ UNCHANGED <<des, rt, numpy_wraps, call>>

\* Deserializer.new over the buffer of the serializer, skip_bits to where the latest
\* write began, and the fetch of its width and signedness.
StdFetch ==
    /\ pc = "stdread"
    /\ \E d \in {DesSkipBits(DesNew(<<SerBuffer(SerState(mem, ser["M"].off))>>), last.pre)} :
          twin' = StdFetchOf(d, last.name)
    /\ pc' = "std"
    /\ UNCHANGED <<steps, mem, ser, ref, des, rt, raised, last, numpy_wraps, call>>

NextStdWidth == StdWrite \/ StdFetch

SpecStdWidth == InitStdWidth /\ [][NextStdWidth]_vars

\* The value given to the latest write: its sign and the digits of its magnitude.
StdValue == OpSigned([name |-> last.name, n |-> last.n, w |-> last.w, x |-> last.x])

\* Byte i (0-based) that the latest write left at its cursor.
StdWritten(i) == mem[last.pre \div 8 + i + 1]

\* The bytes written are those of v mod 2^w, least significant first: those of v when
\* v >= 0; when v < 0 those which added to the bytes of -v, with carry c, give zero
\* in every one of the w / 8 bytes.
StdLittleEndian(nbytes) ==
    IF ~StdValue.neg THEN \A i \in 0..(nbytes - 1) : StdWritten(i) = WideByte(StdValue, i)
    ELSE LET c[i \in 0..nbytes] ==
                IF i = 0 THEN 0
                ELSE (StdWritten(i - 1) + WideByte(StdValue, i - 1) + c[i - 1]) \div 256
         IN \A i \in 0..(nbytes - 1) :
               (StdWritten(i) + WideByte(StdValue, i) + c[i]) % 256 = 0

\* The value fetched is the value written.
StdFetchedBack ==
    /\ twin.err = "none"
    /\ twin.off = last.pre + SerOpBits([name |-> last.name, n |-> last.n, w |-> last.w,
                                        x |-> last.x], last.pre)
    /\ IF twin.kind = "int" THEN twin.val = <<last.n>> /\ last.x = <<>>
       ELSE /\ twin.kind = (IF StdValue.neg THEN "negwide" ELSE "wide")
            /\ WideTrim(twin.val) = WideTrim(StdValue.d)

\* C21: a standard-width writer given a value in range raises nothing, leaves the w / 8
\* bytes of v mod 2^w at the cursor, least significant first, changes no other byte
\* and advances the cursor by w; the fetch of the same width and signedness over the
\* bytes returns v.
C21_StdWidthLittleEndian ==
    LET w == SerOpBits([name |-> last.name, n |-> last.n, w |-> last.w, x |-> last.x],
                       last.pre)
    IN /\ (pc = "stdread") =>
            /\ last.err = "none"
            /\ ser["M"].off = last.pre + w
            /\ StdLittleEndian(w \div 8)
            /\ \A i \in 1..Len(mem) :
                  (i <= last.pre \div 8 \/ i > last.pre \div 8 + w \div 8) => mem[i] = ref.buf[i]
       /\ (pc = "std" /\ steps > 0) => StdFetchedBack

\* C21 witness: add_aligned_i32(-0x12345678) after another write left 88 A9 CB ED, and
\* fetch_aligned_i32 gave the value back.
C21_Witness ==
    /\ pc = "std"
    /\ last.name = "add_aligned_i32"
    /\ last.n < 0
    /\ last.x = <<22136, 4660>>
    /\ last.pre > 0
    /\ SubSeq(mem, last.pre \div 8 + 1, last.pre \div 8 + 4) = <<136, 169, 203, 237>>
    /\ twin.kind = "negwide"
    /\ twin.val = <<22136, 4660>>

\* ------------------------------------------------- pad_to_alignment (Pad)

\* Size, in bytes, requested from Serializer.new.
PadSize == 2

\* Operations issued in one run.
MaxPadOps == 4

\* The alignments asked for.
PadAlignments == {1, 2, 3, 7, 8, 16, 32}

\* What moves the cursor of the serializer before it is padded.
PadSerMoves ==
    {SerOp("skip_bits", k, 0, <<>>) : k \in {1, 5, 8}}
    \cup {SerOp("add_unaligned_bit", 1, 0, <<>>),
          SerOp("add_unaligned_bytes", 0, 0, <<255>>)}

\* What moves the cursor of the deserializer before it is padded.
PadDesMoves == {DesOp("skip_bits", 1), DesOp("skip_bits", 11), DesOp("fetch_unaligned_bit", 0)}

InitPad ==
    /\ pc = "pad"
    /\ steps = 0
    /\ mem = SerNew(PadSize).buf
    /\ ser = [h \in Handles |->
                IF h = "M" THEN [live |-> TRUE, base |-> 0, len |-> Len(SerNew(PadSize).buf),
                                 off |-> 0, used |-> 0]
                ELSE NoSer]
    /\ ref = SerNew(PadSize)
    /\ des = [h \in Handles |->
                IF h = "M" THEN [live |-> TRUE, base |-> 0, buf |-> DesNew(<<TreeSource>>).buf,
                                 off |-> 0]
                ELSE NoDes]
    /\ twin = DesState(<<>>, 0)
    /\ rt = NoRt
    /\ raised = FALSE
    /\ numpy_wraps = TRUE
    /\ last = NoLast
    /\ call = NoCall

\* An operation on the serializer: a move within the size requested, or
\* pad_to_alignment with any of the alignments; ref keeps the serializer as it was.
PadSerStep ==
    /\ pc = "pad"
    /\ steps < MaxPadOps
    /\ \E op \in PadSerMoves \cup {SerOp("pad_to_alignment", a, 0, <<>>) : a \in PadAlignments} :
          /\ op.name # "pad_to_alignment" =>
                ser["M"].off + SerOpBits(op, ser["M"].off) <= 8 * PadSize
          /\ \E s \in {SerExec(SerState(mem, ser["M"].off), op)} :
                /\ mem' = s.buf
                /\ ser' = [ser EXCEPT !["M"].off = s.off]
                /\ last' = [SerLast("M", op, ser["M"].off, s) EXCEPT !.c = "ser"]
    /\ ref' = SerState(mem, ser["M"].off)
    /\ raised' = (raised \/ last'.err # "none")
    /\ steps' = steps + 1
    /\ UNCHANGED <<pc, des, twin, rt, numpy_wraps, call>>

\* A fork of the serializer writes a byte ahead of the cursor and is discarded.
PadChildWrite ==
    /\ pc = "pad"
    /\ steps < MaxPadOps
    /\ \E f \in {SerForkBytes(SerState(mem, ser["M"].off), 1)} :
          /\ f.err = "none"
          /\ LET v == [live |-> TRUE, base |-> f.start, len |-> f.len, off |-> 0, used |-> 0]
             IN mem' = WriteBack(mem, v, AddAlignedU8(SerState(View(mem, v), 0), 255).buf)
    /\ ref' = SerState(mem, ser["M"].off)
    /\ last' = [NoLast EXCEPT !.h = "M", !.c = "F", !.name = "fork_bytes", !.n = 1,
                              !.pre = ser["M"].off]
    /\ steps' = steps + 1
    /\ UNCHANGED <<pc, ser, des, twin, rt, raised, numpy_wraps, call>>

\* An operation on the deserializer: a move, or pad_to_alignment.
PadDesStep ==
    /\ pc = "pad"
    /\ steps < MaxPadOps
    /\ \E op \in PadDesMoves \cup {DesOp("pad_to_alignment", a) : a \in PadAlignments} :
          \E d \in {DesExec(DesState(des["M"].buf, des["M"].off), op)} :
             /\ des' = [des EXCEPT !["M"].off = d.off]
             /\ last' = [DesLast("M", op, des["M"].off, d) EXCEPT !.c = "des"]
    /\ steps' = steps + 1
    /\ UNCHANGED <<pc, mem, ser, ref, twin, rt, raised, numpy_wraps, call>>

NextPad == PadSerStep \/ PadChildWrite \/ PadDesStep

SpecPad == InitPad /\ [][NextPad]_vars

\* The smallest multiple of the alignment that is not below the cursor before the call.
PadTarget == ((last.pre + last.n - 1) \div last.n) * last.n

PadOnSer == pc = "pad" /\ last.name = "pad_to_alignment" /\ last.c = "ser"

PadOnDes == pc = "pad" /\ last.name = "pad_to_alignment" /\ last.c = "des"

\* pad_to_alignment on the Deserializer: the cursor is at the target, as skip_bits of
\* the distance leaves it.
PadDesAsSkip ==
    PadOnDes =>
        /\ last.err = "none"
        /\ des["M"].off = PadTarget
        /\ \E d \in {DesSkipBits(DesState(des["M"].buf, last.pre), PadTarget - last.pre)} :
              d.err = "none" /\ d.off = des["M"].off

FloatSize == 9

\* Float writes issued in one run.
MaxFloatOps == 1

FloatWriters ==
    {"add_aligned_f16", "add_aligned_f32", "add_aligned_f64",
     "add_unaligned_f16", "add_unaligned_f32", "add_unaligned_f64"}

\* Finite values n * 2^w of both signs: 1; 99999.875; 65519, 65520 and 65504 about
\* the largest binary16 value; a binary16 subnormal; the largest binary32 value, a
\* value above it that rounds to it and one that does not; 2^1023.
FloatOps ==
    {SerOp(name, sgn * v[1], v[2], <<>>) :
        name \in FloatWriters, sgn \in {1, 0 - 1},
        v \in {<<1, 0>>, <<799999, 0 - 3>>, <<65519, 0>>, <<4095, 4>>, <<2047, 5>>,
               <<3, 0 - 26>>, <<16777215, 104>>, <<67108861, 102>>, <<33554431, 103>>,
               <<1, 1023>>}}

InitSerFloat ==
    /\ pc = "float"
    /\ steps = 0
    /\ mem = SerNew(FloatSize).buf
    /\ ser = [h \in Handles |->
                IF h = "M" THEN [live |-> TRUE, base |-> 0,
                                 len |-> Len(SerNew(FloatSize).buf), off |-> 0, used |-> 0]
                ELSE NoSer]
    /\ ref = SerNew(FloatSize)
    /\ des = [h \in Handles |-> NoDes]
    /\ twin = DesState(<<>>, 0)
    /\ rt = NoRt
    /\ raised = FALSE
    /\ numpy_wraps \in BOOLEAN
    /\ last = NoLast
    /\ call = NoCall

\* skip_bits(k) on the fresh serializer, to start the writes at any bit of a byte.
FloatSkip ==
    /\ pc = "float"
    /\ steps = 0
    /\ ser["M"].off = 0
    /\ \E k \in 1..8 :
          \E s \in {SerSkipBits(SerState(mem, 0), k)} :
             /\ ser' = [ser EXCEPT !["M"].off = s.off, !["M"].used = @ + k]
             /\ last' = [NoLast EXCEPT !.h = "M", !.name = "skip_bits", !.n = k]
    /\ UNCHANGED <<pc, steps, mem, ref, des, twin, rt, raised, numpy_wraps, call>>

\* A float write within the size requested; the aligned writers at an aligned cursor.
FloatWrite ==
    /\ pc = "float"
    /\ steps < MaxFloatOps
    /\ \E op \in FloatOps :
          /\ ser["M"].off + SerOpBits(op, ser["M"].off) <= 8 * FloatSize
          /\ \E s \in {SerExec(SerState(mem, ser["M"].off), op)} :
                /\ mem' = s.buf
                /\ ser' = [ser EXCEPT !["M"].off = s.off,
                                      !["M"].used = @ + SerOpBits(op, ser["M"].off)]
                /\ last' = SerLast("M", op, ser["M"].off, s)
    /\ raised' = (raised \/ last'.err # "none")
    /\ steps' = steps + 1
    /\ UNCHANGED <<pc, ref, des, twin, rt, numpy_wraps, call>>

NextSerFloat == FloatSkip \/ FloatWrite

SpecSerFloat == InitSerFloat /\ [][NextSerFloat]_vars

\* The latest operation was a float write, an aligned one at an aligned cursor.
FloatOn ==
    /\ pc = "float"
    /\ last.name \in FloatWriters
    /\ last.name \in {"add_aligned_f16", "add_aligned_f32", "add_aligned_f64"}
          => last.pre % 8 = 0

\* The format of the latest float write, and the magnitude and the sign given to it.
LastFormat ==
    FloatFormat(CASE last.name \in {"add_aligned_f16", "add_unaligned_f16"} -> "e"
                  [] last.name \in {"add_aligned_f32", "add_unaligned_f32"} -> "f"
                  [] OTHER -> "d")

LastMagnitude == IF last.n < 0 THEN 0 - last.n ELSE last.n

\* The exponent of the leading bit of the value given.
LastExponent == BitLen(LastMagnitude) - 1 + last.w

\* The leading p bits of the value given are all ones, and more bits follow them.
LastAboveOnes ==
    /\ LastExponent = LastFormat.emax
    /\ BitLen(LastMagnitude) > LastFormat.p
    /\ LastMagnitude \div (2 ^ (BitLen(LastMagnitude) - LastFormat.p))
          = 2 ^ LastFormat.p - 1

\* The magnitude given is above the largest finite value of the width.
BeyondLargest ==
    \/ LastExponent > LastFormat.emax
    \/ /\ LastAboveOnes
       /\ LastMagnitude % (2 ^ (BitLen(LastMagnitude) - LastFormat.p)) > 0

\* The magnitude given is at least half a unit of the last place above the largest
\* finite value of the width: its rounding to the width is beyond that value.
RoundsBeyondLargest ==
    \/ LastExponent > LastFormat.emax
    \/ /\ LastAboveOnes
       /\ NBit(LastMagnitude, BitLen(LastMagnitude) - LastFormat.p - 1) = 1

\* The bits written are those of the infinity of the sign given.
WrittenInf ==
    \A j \in 0..(LastFormat.p + LastFormat.ebits - 1) :
        BitOfSeq(mem, last.pre + j) =
            IF j < LastFormat.p - 1 THEN 0
            ELSE IF j < LastFormat.p + LastFormat.ebits - 1 THEN 1
            ELSE IF last.n < 0 THEN 1 ELSE 0

\* The bits written are those of the largest finite value, of the sign given.
WrittenLargest ==
    \A j \in 0..(LastFormat.p + LastFormat.ebits - 1) :
        BitOfSeq(mem, last.pre + j) =
            IF j = LastFormat.p - 1 THEN 0
            ELSE IF j < LastFormat.p + LastFormat.ebits - 1 THEN 1
            ELSE IF last.n < 0 THEN 1 ELSE 0

\* C23 as stated: a float writer given a finite value does not fail and advances the
\* cursor by its width; a value whose magnitude is above the largest finite value of
\* the width is written as the infinity of its sign.
C23_FloatSaturation_AsClaimed ==
    FloatOn =>
        /\ last.err = "none"
        /\ ser["M"].off = last.pre + LastFormat.p + LastFormat.ebits
        /\ BeyondLargest => WrittenInf

\* C23, amended: a float writer given a finite value does not fail and advances the
\* cursor by its width; a value whose rounding to the width is beyond the largest
\* finite value is written as the infinity of its sign, and a value above the largest
\* finite value that rounds to it is written as that value.
C23_FloatSaturation ==
    FloatOn =>
        /\ last.err = "none"
        /\ ser["M"].off = last.pre + LastFormat.p + LastFormat.ebits
        /\ RoundsBeyondLargest => WrittenInf
        /\ (BeyondLargest /\ ~RoundsBeyondLargest) => WrittenLargest

\* C23 witness: add_aligned_f16 of 99999.875 on the fresh serializer wrote 00 7C.
C23_Witness ==
    /\ FloatOn
    /\ last.name = "add_aligned_f16"
    /\ last.n = 799999 /\ last.w = 0 - 3
    /\ last.pre = 0
    /\ RoundsBeyondLargest
    /\ mem[1] = 0 /\ mem[2] = 124
    /\ ser["M"].off = 16

\* ------------------------------- delimited serialization (Delimited)

\* Size, in bytes, requested from Serializer.new for M.
DelimSize == 7

\* Bytes of the nested object written through F.
MaxBody == 2

\* The sizes of the delimiter header, in bytes.
HeaderSizes == {1, 2, 4}

\* The writes of the h-byte header of the value n through M.
HeaderOps(h, n) ==
    {SerOp("add_aligned_bytes", 0, 0, [i \in 1..h |-> IF i = 1 THEN n ELSE 0]),
     SerOp("add_unaligned_bytes", 0, 0, [i \in 1..h |-> IF i = 1 THEN n ELSE 0])}
    \cup (IF h = 1 THEN {SerOp("add_aligned_u8", n, 0, <<>>)} ELSE {})
    \cup (IF h = 2 THEN {SerOp("add_aligned_u16", n, 0, <<>>)} ELSE {})
    \cup (IF h = 4 THEN {SerOp("add_aligned_u32", n, 0, <<>>)} ELSE {})
    \cup (IF h < 4 THEN {SerOp("add_aligned_unsigned", n, 8 * h, <<>>),
                         SerOp("add_unaligned_unsigned", n, 8 * h, <<>>)}
          ELSE {})

\* The writes of one byte of the nested object through F.
BodyOps ==
    {SerOp("add_aligned_u8", 171, 0, <<>>), SerOp("add_unaligned_bytes", 0, 0, <<255>>)}

InitDelim ==
    /\ pc = "dl_start"
    /\ steps = 0
    /\ mem = SerNew(DelimSize).buf
    /\ ser = [h \in Handles |->
                IF h = "M" THEN [live |-> TRUE, base |-> 0,
                                 len |-> Len(SerNew(DelimSize).buf), off |-> 0, used |-> 0]
                ELSE NoSer]
    /\ ref = SerNew(DelimSize)
    /\ des = [h \in Handles |-> NoDes]
    /\ twin = DesState(<<>>, 0)
    /\ rt = NoRt
    /\ raised = FALSE
    /\ numpy_wraps \in BOOLEAN
    /\ last = NoLast
    /\ call = NoCall

\* M.add_aligned_u8(165): a field of the outer object before the nested one.
DelimPrefix ==
    /\ pc = "dl_start"
    /\ ser["M"].off = 0
    /\ \E op \in {SerOp("add_aligned_u8", 165, 0, <<>>)} :
          \E s \in {SerExec(SerState(mem, ser["M"].off), op)} :
             /\ mem' = s.buf
             /\ ser' = [ser EXCEPT !["M"].off = s.off, !["M"].used = @ + 8]
             /\ last' = SerLast("M", op, ser["M"].off, s)
    /\ UNCHANGED <<pc, steps, ref, des, twin, rt, raised, numpy_wraps, call>>

\* F = M.fork_bytes(size), for a size the remaining buffer has room for.
DelimFork ==
    /\ pc = "dl_start"
    /\ \E size \in 1..DelimSize :
          \E f \in {SerForkBytes(SerState(mem, ser["M"].off), size)} :
             /\ f.err = "none"
             /\ ser' = [ser EXCEPT !["F"] = [live |-> TRUE, base |-> f.start,
                                             len |-> f.len, off |-> 0, used |-> 0]]
             /\ last' = [NoLast EXCEPT !.h = "M", !.c = "F", !.name = "fork_bytes",
                                       !.n = size, !.pre = ser["M"].off]
    /\ pc' = "dl_forked"
    /\ UNCHANGED <<steps, mem, ref, des, twin, rt, raised, numpy_wraps, call>>

\* F.skip_bits(8 * h): F skips the delimiter header; rt.k keeps h.
DelimBodySkip ==
    /\ pc = "dl_forked"
    /\ \E h \in HeaderSizes :
          /\ 8 * h <= 8 * (ser["F"].len - 1)
          /\ \E s \in {SerSkipBits(SerState(View(mem, ser["F"]), 0), 8 * h)} :
                /\ ser' = [ser EXCEPT !["F"].off = s.off, !["F"].used = @ + 8 * h]
                /\ last' = [NoLast EXCEPT !.h = "F", !.name = "skip_bits", !.n = 8 * h]
          /\ rt' = [NoRt EXCEPT !.k = h]
    /\ pc' = "dl_body"
    /\ UNCHANGED <<steps, mem, ref, des, twin, raised, numpy_wraps, call>>

\* A byte of the nested object is written through F, within the size of F.
DelimBodyWrite ==
    /\ pc = "dl_body"
    /\ steps < MaxBody
    /\ \E op \in BodyOps :
          /\ ser["F"].off + 8 <= 8 * (ser["F"].len - 1)
          /\ \E s \in {SerExec(SerState(View(mem, ser["F"]), ser["F"].off), op)} :
                /\ mem' = WriteBack(mem, ser["F"], s.buf)
                /\ ser' = [ser EXCEPT !["F"].off = s.off, !["F"].used = @ + 8]
                /\ last' = SerLast("F", op, ser["F"].off, s)
    /\ steps' = steps + 1
    /\ UNCHANGED <<pc, ref, des, twin, rt, raised, numpy_wraps, call>>

\* M writes the header, whose value is the count of the bytes F wrote after its skip;
\* ref keeps the array as it was before this write, and rt.aligned whether the
\* writer is one of the aligned family.
DelimHeader ==
    /\ pc = "dl_body"
    /\ \E op \in HeaderOps(rt.k, (ser["F"].off \div 8) - rt.k) :
          \E s \in {SerExec(SerState(mem, ser["M"].off), op)} :
             /\ mem' = s.buf
             /\ ser' = [ser EXCEPT !["M"].off = s.off, !["M"].used = @ + 8 * rt.k]
             /\ last' = SerLast("M", op, ser["M"].off, s)
             /\ rt' = [rt EXCEPT !.aligned =
                          op.name \notin {"add_unaligned_bytes", "add_unaligned_unsigned"}]
             /\ raised' = (s.err # "none")
    /\ ref' = SerState(mem, ser["M"].off)
    /\ pc' = "dl_header"
    /\ UNCHANGED <<steps, des, twin, numpy_wraps, call>>

\* M.skip_bits(8 * n), past the bytes F wrote.
DelimSkip ==
    /\ pc = "dl_header"
    /\ \E s \in {SerSkipBits(SerState(mem, ser["M"].off), ser["F"].off - 8 * rt.k)} :
          /\ ser' = [ser EXCEPT !["M"].off = s.off, !["M"].used = @ + ser["F"].off - 8 * rt.k]
          /\ last' = [NoLast EXCEPT !.h = "M", !.name = "skip_bits",
                                    !.n = ser["F"].off - 8 * rt.k, !.pre = ser["M"].off]
    /\ pc' = "dl_done"
    /\ UNCHANGED <<steps, mem, ref, des, twin, rt, raised, numpy_wraps, call>>

NextDelim ==
    DelimPrefix \/ DelimFork \/ DelimBodySkip \/ DelimBodyWrite \/ DelimHeader \/ DelimSkip

SpecDelim == InitDelim /\ [][NextDelim]_vars

\* The byte of the root array at which M was forked, and the count of the bytes F
\* wrote after the header it skipped.
DelimAt == ser["F"].base

DelimCount == (ser["F"].off \div 8) - rt.k

\* M's buffer after the protocol, were the bytes written through F as F left them:
\* the bytes before the fork, the header, the nested object.
DelimExpected ==
    [i \in 1..(DelimAt + rt.k + DelimCount) |->
        IF i <= DelimAt THEN ref.buf[i]
        ELSE IF i = DelimAt + 1 THEN DelimCount
        ELSE IF i <= DelimAt + rt.k THEN 0
        ELSE ref.buf[i]]

\* C24 as stated: whichever write M uses for the header, it raises nothing and alters
\* no byte written through F, and after M's skip M's buffer is the header followed by
\* the bytes F wrote.
C24_DelimitedProtocol_AsClaimed ==
    /\ pc \in {"dl_header", "dl_done"} =>
          /\ ~raised
          /\ \A i \in 1..DelimCount :
                mem[DelimAt + rt.k + i] = ref.buf[DelimAt + rt.k + i]
    /\ pc = "dl_done" => SerBuffer(SerState(mem, ser["M"].off)) = DelimExpected

\* C24, amended: so it is when the header is written by a writer of the aligned
\* family; add_unaligned_bytes and add_unaligned_unsigned store a zero in the byte
\* after the header, the first byte written through F, and alter no other.
C24_DelimitedProtocol ==
    /\ pc \in {"dl_header", "dl_done"} =>
          /\ ~raised
          /\ \A i \in 1..DelimCount :
                mem[DelimAt + rt.k + i] =
                    IF rt.aligned \/ i > 1 THEN ref.buf[DelimAt + rt.k + i] ELSE 0
    /\ pc = "dl_done" =>
          /\ ser["M"].off = 8 * (DelimAt + rt.k + DelimCount)
          /\ Len(SerBuffer(SerState(mem, ser["M"].off))) = Len(DelimExpected)
          /\ \A i \in 1..Len(DelimExpected) :
                mem[i] = IF rt.aligned \/ i # DelimAt + rt.k + 1 THEN DelimExpected[i] ELSE 0

\* C24 witness: after the byte A5, a four-byte header written by add_aligned_u32 and
\* then two bytes written through the fork: the buffer is A5 02 00 00 00 AB FF.
C24_Witness ==
    /\ pc = "dl_done"
    /\ rt.aligned
    /\ rt.k = 4
    /\ ser["M"].off = 56
    /\ SerBuffer(SerState(mem, ser["M"].off)) = <<165, 2, 0, 0, 0, 171, 255>>

\* ------------------------------------------------ cursor accounting

\* The latest operation on the deserializer M was a fetch, and it returned.
DesFetchReturned ==
    /\ pc = "des"
    /\ last.h = "M"
    /\ last.name \notin {"none", "skip_bits", "pad_to_alignment"}
    /\ last.err = "none"

\* C25: a fetch that returns has advanced the cursor of the Deserializer by its
\* nominal bit count, at any cursor, aligned or not, within the source or beyond it;
\* the cursor is never negative and never below its value before the latest
\* operation, and consumed_bit_length + remaining_bit_length is 8 times the length
\* of the source.
C25_DesCursorAccounting ==
    pc = "des" =>
        /\ DesFetchReturned => des["M"].off = last.pre + DesOpBits(LastDesOp)
        /\ des["M"].off >= 0
        /\ des["M"].off >= last.pre
        /\ ConsumedBitLength(DesState(des["M"].buf, des["M"].off))
              + RemainingBitLength(DesState(des["M"].buf, des["M"].off))
              = 8 * Len(des["M"].buf)

\* C25 witness: fetch_unaligned_unsigned(11) from bit 17 of a source of 24 bits read
\* two bytes and backtracked by 5 bits; the cursor is at 28, beyond the source.
C25_Witness ==
    /\ DesFetchReturned
    /\ last.name = "fetch_unaligned_unsigned"
    /\ last.n = 11
    /\ last.pre = 17
    /\ Len(des["M"].buf) = 3
    /\ des["M"].off = 28
    /\ RemainingBitLength(DesState(des["M"].buf, des["M"].off)) = 0 - 4

\* The latest operation on the serializer M was a write, and it returned.
SerWriteReturned ==
    /\ SerFlatIssued
    /\ last.name \notin {"none", "skip_bits", "pad_to_alignment"}
    /\ last.err = "none"

\* C26: an add_* operation that returns has increased bit_offset by its nominal bit
\* count, the unaligned ones after their overshoot and backtracking; the cursor seen
\* after an operation is not below the one seen before it.
C26_SerCursorAccounting ==
    /\ SerWriteReturned =>
          ser["M"].off = last.pre + LastWidth
    /\ SerFlatIssued => ser["M"].off >= last.pre

\* C26 witness: add_unaligned_array_of_bits of nine bits from bit 3 wrote two bytes,
\* moving the cursor to 19, and backtracked to 12.
C26_Witness ==
    /\ SerWriteReturned
    /\ last.name = "add_unaligned_array_of_bits"
    /\ Len(last.x) = 9
    /\ last.pre = 3
    /\ ser["M"].off = 12

\* The latest operation on the deserializer M was fetch_unaligned_bytes(count), for
\* a count of 0 or more.
FetchedUnalignedBytes ==
    /\ pc = "des"
    /\ last.h = "M"
    /\ last.name = "fetch_unaligned_bytes"
    /\ last.n >= 0

\* C27: fetch_unaligned_bytes(count) at the cursor p, aligned or not, returns count
\* bytes of which bit j of byte i is bit p + 8i + j of the source extended with
\* zeros, and advances the cursor by 8 * count.
C27_FetchUnalignedBytes ==
    FetchedUnalignedBytes =>
        /\ last.err = "none"
        /\ last.kind = "bytes"
        /\ Len(last.val) = last.n
        /\ \A i \in 0..(last.n - 1), j \in 0..7 :
              (last.val[i + 1] \div (2 ^ j)) % 2
                  = BitOfSeq(des["M"].buf, last.pre + 8 * i + j)
        /\ \A i \in 1..last.n : last.val[i] \in 0..255
        /\ des["M"].off = last.pre + 8 * last.n

\* C27 witness: two bytes fetched from bit 12 of the source A7 EF CD: DE of EF and
\* CD, and 0C of CD and a zero byte beyond the source.
C27_Witness ==
    /\ FetchedUnalignedBytes
    /\ des["M"].buf = <<167, 239, 205>>
    /\ last.pre = 12
    /\ last.n = 2
    /\ last.val = <<222, 12>>
    /\ des["M"].off = 28

\* ------------------------------------------ arrays of bits (BitArrays)

\* Size, in bytes, requested from Serializer.new.
BitsSize == 3

\* Arrays written in one run.
MaxBitsOps == 2

\* Arrays of booleans, as 0/1: every array of up to three bits, and arrays of 5, 8, 9
\* and 11 bits.
BitArrays ==
    UNION {[1..n -> {0, 1}] : n \in 0..3}
    \cup {<<1, 1, 0, 1, 1>>, <<1, 0, 1, 0, 0, 1, 1, 0>>, <<1, 0, 0, 0, 0, 0, 0, 1, 1>>,
          <<0, 1, 1, 0, 1, 0, 0, 1, 1, 1, 0>>}

BitsWriters == {"add_aligned_array_of_bits", "add_unaligned_array_of_bits"}

InitBits ==
    /\ pc = "bits"
    /\ steps = 0
    /\ mem = SerNew(BitsSize).buf
    /\ ser = [h \in Handles |->
                IF h = "M" THEN [live |-> TRUE, base |-> 0,
                                 len |-> Len(SerNew(BitsSize).buf), off |-> 0, used |-> 0]
                ELSE NoSer]
    /\ ref = SerNew(BitsSize)
    /\ des = [h \in Handles |-> NoDes]
    /\ twin = DesState(<<>>, 0)
    /\ rt = NoRt
    /\ raised = FALSE
    /\ numpy_wraps \in BOOLEAN
    /\ last = NoLast
    /\ call = NoCall

\* skip_bits(k) on the fresh serializer, to start the writes at any bit of a byte.
BitsSkip ==
    /\ pc = "bits"
    /\ steps = 0
    /\ ser["M"].off = 0
    /\ \E k \in 1..8 :
          \E s \in {SerSkipBits(SerState(mem, 0), k)} :
             /\ ser' = [ser EXCEPT !["M"].off = s.off, !["M"].used = @ + k]
             /\ last' = [NoLast EXCEPT !.h = "M", !.name = "skip_bits", !.n = k]
    /\ UNCHANGED <<pc, steps, mem, ref, des, twin, rt, raised, numpy_wraps, call>>

\* An array of bits is written within the size requested, by the aligned writer at an
\* aligned cursor or by the unaligned one; ref keeps the serializer as it was before.
BitsWrite ==
    /\ pc = "bits"
    /\ steps < MaxBitsOps
    /\ \E name \in BitsWriters, x \in BitArrays :
          /\ name = "add_aligned_array_of_bits" => ser["M"].off % 8 = 0
          /\ ser["M"].off + Len(x) <= 8 * BitsSize
          /\ \E s \in {SerExec(SerState(mem, ser["M"].off), SerOp(name, 0, 0, x))} :
                /\ mem' = s.buf
                /\ ser' = [ser EXCEPT !["M"].off = s.off, !["M"].used = @ + Len(x)]
                /\ last' = SerLast("M", SerOp(name, 0, 0, x), ser["M"].off, s)
    /\ ref' = SerState(mem, ser["M"].off)
    /\ twin' = DesState(<<>>, 0)
    /\ raised' = (raised \/ last'.err # "none")
    /\ steps' = steps + 1
    /\ pc' = "bitsread"
    /\ UNCHANGED <<des, rt, numpy_wraps, call>>

\* Deserializer.new over the buffer of the serializer, skip_bits to where the latest
\* write began, and the fetch of as many bits by the unaligned reader, or by the
\* aligned one where the position is aligned.
BitsFetch ==
    /\ pc = "bitsread"
    /\ \E d \in {DesSkipBits(DesNew(<<SerBuffer(SerState(mem, ser["M"].off))>>), last.pre)} :
          \E name \in {"fetch_aligned_array_of_bits", "fetch_unaligned_array_of_bits"} :
             /\ name = "fetch_aligned_array_of_bits" => last.pre % 8 = 0
             /\ twin' = DesExec(d, DesOp(name, Len(last.x)))
    /\ pc' = "bits"
    /\ UNCHANGED <<steps, mem, ser, ref, des, rt, raised, last, numpy_wraps, call>>

NextBits == BitsSkip \/ BitsWrite \/ BitsFetch

SpecBits == InitBits /\ [][NextBits]_vars

\* The latest operation wrote an array of bits; it has been read back when the
\* harness is ready for the next write.
BitsWritten == pc \in {"bits", "bitsread"} /\ last.name \in BitsWriters

\* C28: add_unaligned_array_of_bits(x) at any cursor p, and add_aligned_array_of_bits(x)
\* at an aligned one, store x[i] at bit p + i of the buffer and advance the cursor by
\* len(x); the fetch of len(x) bits at p returns x, whatever len(x) is.
C28_BitArrayRoundTrip ==
    BitsWritten =>
        /\ last.err = "none"
        /\ ser["M"].off = last.pre + Len(last.x)
        /\ \A i \in 1..Len(last.x) : BitOfSeq(mem, last.pre + i - 1) = last.x[i]
        /\ pc = "bits" =>
              /\ twin.err = "none"
              /\ twin.kind = "bits"
              /\ twin.val = last.x
              /\ twin.off = last.pre + Len(last.x)

\* C28 witness: eleven bits written from bit 3 by the unaligned writer were read back.
C28_Witness ==
    /\ BitsWritten
    /\ pc = "bits"
    /\ last.name = "add_unaligned_array_of_bits"
    /\ last.pre = 3
    /\ last.x = <<0, 1, 1, 0, 1, 0, 0, 1, 1, 1, 0>>
    /\ twin.val = last.x
    /\ SerBuffer(SerState(mem, ser["M"].off)) = <<176, 28>>

\* ------------------------------------------------ written bits

UnalignedWriters ==
    {"add_unaligned_bytes", "add_unaligned_unsigned", "add_unaligned_signed",
     "add_unaligned_array_of_bits", "add_unaligned_bit"}

\* C29: no operation of the Serializer changes a bit below the cursor it was called
\* at; an unaligned write changes the byte its cursor was in only by setting bits of
\* it, none below the cursor.
C29_WrittenBitsKept ==
    [][pc = "serflat" =>
          /\ \A p \in 0..(ser["M"].off - 1) : BitOfSeq(mem', p) = BitOfSeq(mem, p)
          /\ (steps' # steps /\ last'.h = "M" /\ last'.name \in UnalignedWriters) =>
                \A p \in (8 * (ser["M"].off \div 8))..(8 * (ser["M"].off \div 8) + 7) :
                    BitOfSeq(mem', p) >= BitOfSeq(mem, p)]_vars

\* C29 witness: add_unaligned_bytes from bit 3, after three bits 1 0 1, has set bits
\* of the first byte above them and kept them.
C29_Witness ==
    /\ SerFlatIssued
    /\ last.name = "add_unaligned_bytes"
    /\ last.err = "none"
    /\ last.pre = 3
    /\ Len(last.x) = 1
    /\ mem[1] % 8 = 5
    /\ mem[1] >= 8

\* ------------------------------------------------ fork windows

\* C30: in a tree of Serializers forked from a root made by new(S), the buffer of
\* every serializer lies within the S + 1 bytes of the root; a child forked with the
\* size s where its parent's cursor was has the s + 1 bytes from there on, within its
\* parent's buffer; and while the operations on a child were asked for at most 8 * s
\* bits, an operation on it addresses no index beyond s of its buffer, raises nothing
\* for an index, and changes no byte of the root outside the child's s + 1 bytes.
C30_ForkWindow ==
    [][pc = "sertree" =>
          /\ \A h \in Handles :
                ser'[h].live =>
                    /\ 0 <= ser'[h].base
                    /\ ser'[h].base + ser'[h].len <= SerSize + EXTRA_BUFFER_CAPACITY_BYTES
          /\ (steps' # steps /\ last'.name = "fork_bytes" /\ last'.err = "none") =>
                /\ ser'[last'.c].len = last'.n + 1
                /\ ser'[last'.c].base = ser[last'.h].base + last'.pre \div 8
                /\ ser'[last'.c].base + ser'[last'.c].len
                      <= ser[last'.h].base + ser[last'.h].len
          /\ \A h \in {"F", "FF"} :
                (steps' # steps /\ last'.h = h /\ last'.name # "fork_bytes"
                    /\ ser'[h].used <= 8 * (ser[h].len - 1)) =>
                    /\ last'.err \in {"none", "AssertionError"}
                    /\ last'.top <= ser[h].len - 1
                    /\ \A i \in 1..Len(mem) :
                          mem'[i] # mem[i] =>
                              (ser[h].base < i /\ i <= ser[h].base + ser[h].len)]_vars

\* C30 witness: after a byte of M, FF forked from F forked from M at byte 1 has
\* written three bits; the store of the high fragment addressed its overhang byte.
C30_Witness ==
    /\ pc = "sertree"
    /\ last.h = "FF"
    /\ last.name = "add_unaligned_unsigned"
    /\ last.err = "none"
    /\ ser["FF"].base = 1
    /\ ser["FF"].len = 2
    /\ last.top = 1
    /\ mem = <<165, 5, 0>>

====
